---- MODULE Spec2Model ----
(***************************************************************************)
(* qtproperties: property widgets (widgets.py), property groups with       *)
(* link/override and the property editor (editor.py), as a state machine.  *)
(*                                                                         *)
(* Python objects are records; a handler is an operator from the program   *)
(* state S to the program state after the handler, Qt's synchronous        *)
(* signal delivery is a (recursive) call of the connected slots in         *)
(* connection order.  A raised exception is S.err: the statements after    *)
(* the raise are not executed, what was assigned before it stays.          *)
(*                                                                         *)
(* Let(e, F) is "x = e; F(x)": the intermediate state of a handler is      *)
(* computed once and then read by the statements that follow.              *)
(***************************************************************************)
EXTENDS Integers, Sequences, FiniteSets, TLC

VARIABLES
    tabs,      \* PropertyEditor.tabs: the tab names, in insertion order
    egroups,   \* PropertyEditor.groups: <<[tab, groups: <<[name, gid]>>]>>
    groups,    \* the PropertyGroup objects, by group id
    widgets,   \* the PropertyWidget objects, by widget id
    defaults,  \* PropertyWidget.defaults, the dict of the class
    lineEdit,  \* a numeric editor on its own: text, cursor, selection, cache, validator
    vec,       \* an Int2 or Float2 instance and the last operation on it
    labelled,  \* a name, the label option and the label a widget derives from them
    prop,      \* a property widget on its own, with its sub-controls
    op         \* the last operation: its arguments, exception and signal log

vars == <<tabs, egroups, groups, widgets, defaults, lineEdit, vec, labelled, prop, op>>

-----------------------------------------------------------------------------
(* Bounds of the model *)

MaxVal == 1        \* integers a user or caller supplies: 0..MaxVal
MaxWidgets == 2    \* widgets constructed while building an editor
MaxGroups == 2     \* groups constructed while building an editor

(* Program constants *)

MAX_INT == 2147483647
SliderMinDefault == 0
SliderMaxDefault == 10

-----------------------------------------------------------------------------
(* Values.  Every Python value the model passes around is a tagged record  *)
(* of one shape; ty is the Python type, for a str x indexes Strings.       *)

NONE == "<None>"                 \* Python's None where a name is expected
Strings == <<"", "a", "b", "c">>

IntV(n) == [ty |-> "int", x |-> n, y |-> 0]
Int2V(a, b) == [ty |-> "Int2", x |-> a, y |-> b]
StrV(k) == [ty |-> "str", x |-> k, y |-> 0]
NoneV == [ty |-> "NoneType", x |-> 0, y |-> 0]

TestInts == 0..MaxVal
IntValues == {IntV(n) : n \in TestInts}
Int2Values == {Int2V(a, b) : a \in TestInts, b \in TestInts}
TestStrs == {0, 1}               \* the strings "" and "a"
StrValues == {StrV(k) : k \in TestStrs}
Values == IntValues \cup Int2Values \cup StrValues

Kinds == {"Int", "Int2", "Str"}

\* accepted_type of IntProperty, Int2Property, StringProperty
accepted_type(kind) ==
    CASE kind = "Int" -> "int"
      [] kind = "Int2" -> "Int2"
      [] kind = "Str" -> "str"

\* the default of IntProperty, Int2Property, StringProperty
default(kind) ==
    CASE kind = "Int" -> IntV(0)
      [] kind = "Int2" -> Int2V(0, 0)
      [] kind = "Str" -> StrV(0)

-----------------------------------------------------------------------------
(* Sequencing and exceptions *)

Let(e, F(_)) == CHOOSE y \in {F(x) : x \in {e}} : TRUE

Raise(S, e) == IF S.err = "none" THEN [S EXCEPT !.err = e] ELSE S

\* validate_value with accepted_type left at the base class's Any
validate_value_any(w, v) == TRUE

\* PropertyWidget.validate_value: a TypeError unless isinstance(value, accepted_type)
validate_value(w, v) == v.ty = accepted_type(w.kind)

-----------------------------------------------------------------------------
(* IntLineEdit: value is what the getter reads (int(self.text())), _value   *)
(* the cached number the setter compares with.                              *)

\* IntLineEdit.__init__: _value = 0, then value = 1 (the setter keeps 1); the text is empty
IntLineEdit_init == [value |-> 0, _value |-> 1]

\* IntLineEdit.value setter: emits valueChanged when value differs from the cache
IntLineEdit_value_set(line, n) ==
    [line |-> [line EXCEPT !._value = n], emitted |-> (n # line._value)]

\* IntLineEdit.strip_padding: re-reads the text, stores it through the setter, rewrites the text
strip_padding(line) ==
    LET n == line.value
        r == IntLineEdit_value_set(line, n)
    IN  [line |-> [r.line EXCEPT !.value = n], emitted |-> r.emitted]

\* QIntValidator.validate: Acceptable iff the number lies in [bottom, top]
Acceptable(n, lo, hi) == lo <= n /\ n <= hi

\* IntLineEdit.setValue: commits only a text the validator accepts
setValue(line, n, lo, hi) ==
    IF Acceptable(n, lo, hi)
    THEN strip_padding([line EXCEPT !.value = n])
    ELSE [line |-> line, emitted |-> FALSE]

\* QSlider.setSliderPosition: the position is clamped to the slider's range
setSliderPosition(p, lo, hi) == IF p < lo THEN lo ELSE IF p > hi THEN hi ELSE p

-----------------------------------------------------------------------------
(* IntLineEdit and FloatLineEdit at the level of the text                  *)
(* A text is a sequence of characters.  A number is an integer count of    *)
(* Unit-ths, so that 1.5 is 150 when MaxDecimals is 2.                     *)

MaxDecimals == 2       \* decimal places a number of the model can have
MaxLen == 3            \* length of a text the user types
MaxNum == 12           \* largest magnitude an editor is driven to, in units of
                       \* its last decimal place

DigitChars == <<"0", "1", "2", "3", "4", "5", "6", "7", "8", "9">>
Digits == {DigitChars[i] : i \in 1..10}

\* str.isdigit of one character
isdigit(c) == c \in Digits

DigitVals == [c \in Digits |-> (CHOOSE i \in 1..10 : DigitChars[i] = c) - 1]
DigitVal(c) == DigitVals[c]

RECURSIVE Pow10(_)
\* pow(10, k) for k >= 0
Pow10(k) == IF k = 0 THEN 1 ELSE 10 * Pow10(k - 1)

Unit == Pow10(MaxDecimals)

Abs(n) == IF n < 0 THEN -n ELSE n
Max(a, b) == IF a >= b THEN a ELSE b
Min(a, b) == IF a <= b THEN a ELSE b

RECURSIVE digits_val(_)
\* the number written by a sequence of digits
digits_val(t) ==
    IF t = <<>> THEN 0 ELSE 10 * digits_val(SubSeq(t, 1, Len(t) - 1)) + DigitVal(t[Len(t)])

RECURSIVE digits_str(_)
\* the digits of n >= 0
digits_str(n) ==
    IF n < 10 THEN <<DigitChars[n + 1]>> ELSE Append(digits_str(n \div 10), DigitChars[(n % 10) + 1])

RECURSIVE zfill(_, _)
\* zero padding on the left up to width w
zfill(t, w) == IF Len(t) >= w THEN t ELSE zfill(<<"0">> \o t, w)

\* the text without a leading sign
unsigned(t) == IF t # <<>> /\ t[1] \in {"+", "-"} THEN Tail(t) ELSE t
negative(t) == t # <<>> /\ t[1] = "-"

\* str.find('.'), counted from 0; -1 when there is none
find_point(t) ==
    IF \E i \in 1..Len(t) : t[i] = "."
    THEN (CHOOSE i \in 1..Len(t) : t[i] = "." /\ \A j \in 1..(i - 1) : t[j] # ".") - 1
    ELSE -1

\* len([c for c in t if c.isdigit()])
count_digits(t) == Cardinality({i \in 1..Len(t) : isdigit(t[i])})

\* the number of digits after the decimal point
count_decimals(t) == IF find_point(t) = -1 THEN 0 ELSE Len(t) - 1 - find_point(t)

\* int(text) does not raise ValueError
int_ok(t) == unsigned(t) # <<>> /\ \A i \in 1..Len(unsigned(t)) : isdigit(unsigned(t)[i])

\* float(text) does not raise ValueError
float_ok(t) ==
    /\ count_digits(unsigned(t)) >= 1
    /\ Cardinality({i \in 1..Len(unsigned(t)) : unsigned(t)[i] = "."}) <= 1
    /\ \A i \in 1..Len(unsigned(t)) : isdigit(unsigned(t)[i]) \/ unsigned(t)[i] = "."

\* int(text)
int_parse(t) == (IF negative(t) THEN -1 ELSE 1) * digits_val(unsigned(t)) * Unit

\* float(text), for a text of at most MaxDecimals decimals
float_parse(t) ==
    LET u == unsigned(t)
        d == find_point(u)
        whole == IF d = -1 THEN u ELSE SubSeq(u, 1, d)
        frac == IF d = -1 THEN <<>> ELSE SubSeq(u, d + 2, Len(u))
    IN  (IF negative(t) THEN -1 ELSE 1)
            * (digits_val(whole) * Unit + digits_val(frac) * Pow10(MaxDecimals - Len(frac)))

\* f'{value:0{width}.{decimals}f}' of a number with at most that many
\* decimals; decimals = 0 writes no decimal point
format_fixed(n, width, decimals) ==
    LET whole == digits_str(Abs(n) \div Unit)
        frac == SubSeq(zfill(digits_str(Abs(n) % Unit), MaxDecimals), 1, decimals)
        body == IF decimals = 0 THEN whole ELSE whole \o <<".">> \o frac
    IN  IF n < 0 THEN <<"-">> \o zfill(body, width - 1) ELSE zfill(body, width)

\* f'{value:0{padding}}' of an int
format_int(n, padding) == format_fixed(n, padding, 0)

\* the number of decimals of the shortest text of n
min_decimals(n) ==
    CHOOSE k \in 0..MaxDecimals :
        /\ n % Pow10(MaxDecimals - k) = 0
        /\ \A j \in 0..(k - 1) : n % Pow10(MaxDecimals - j) # 0

\* str(value) of an int, or of a float that is not a whole number
str(n) == format_fixed(n, 0, min_decimals(n))

RECURSIVE Pow2(_)
Pow2(k) == IF k = 0 THEN 1 ELSE 2 * Pow2(k - 1)

\* the binary float of n is n itself: n is a whole number of 2^-MaxDecimals
exact_float(n) == n % (Unit \div Pow2(MaxDecimals)) = 0

\* round(value, decimals): the candidates.  Python rounds the binary float
\* correctly, a tie to the even neighbour; a decimal tie that is no binary
\* float goes where the float next to it lies, up or down
round(n, decimals) ==
    LET q == Pow10(MaxDecimals - decimals)
        lo == (n \div q) * q
    IN  IF n % q = 0 THEN {n}
        ELSE IF 2 * (n % q) < q THEN {lo}
        ELSE IF 2 * (n % q) > q THEN {lo + q}
        ELSE IF exact_float(n) THEN {IF (lo \div q) % 2 = 0 THEN lo ELSE lo + q}
        ELSE {lo, lo + q}

\* the number of decimal digits of n >= 0
RECURSIVE num_digits(_)
num_digits(n) == IF n < 10 THEN 1 ELSE 1 + num_digits(n \div 10)

\* bottom <= n <= top, for a number n and whole bounds
in_range(n, bottom, top) == bottom <= n \div Unit /\ -((-n) \div Unit) <= top

\* QLocaleData.validateChars: a sign only in front, digits, and for a double
\* at most one decimal point and at most `decimals` digits after it
validateChars(t, float, decimals) ==
    /\ \A i \in 1..Len(unsigned(t)) :
           isdigit(unsigned(t)[i]) \/ (float /\ unsigned(t)[i] = ".")
    /\ Cardinality({i \in 1..Len(t) : t[i] = "."}) <= 1
    /\ count_decimals(t) <= decimals

\* QIntValidator.validate
QIntValidator_validate(t, bottom, top) ==
    LET entered == int_parse(t) \div Unit
        buffLength == Len(t) - (IF t[1] = "+" THEN 1 ELSE 0)
        tLength == IF top # 0 THEN num_digits(Abs(top)) ELSE 1
    IN  IF ~validateChars(t, FALSE, 0) THEN "Invalid"
        ELSE IF t = <<>> THEN "Intermediate"
        ELSE IF bottom >= 0 /\ t[1] = "-" THEN "Invalid"
        ELSE IF top < 0 /\ t[1] = "+" THEN "Invalid"
        ELSE IF Len(t) = 1 /\ t[1] \in {"+", "-"} THEN "Intermediate"
        ELSE IF bottom <= entered /\ entered <= top THEN "Acceptable"
        ELSE IF entered >= 0
             THEN (IF entered > top /\ -entered < bottom /\ buffLength > tLength
                   THEN "Invalid" ELSE "Intermediate")
        ELSE IF entered < bottom THEN "Invalid" ELSE "Intermediate"

\* QDoubleValidator.validate in StandardNotation; a number of at most MaxLen
\* digits is below the power of ten over a bound of more digits
QDoubleValidator_validate(t, bottom, top, decimals) ==
    IF ~validateChars(t, TRUE, decimals) THEN "Invalid"
    ELSE IF t = <<>> THEN "Intermediate"
    ELSE IF bottom >= 0 /\ t[1] = "-" THEN "Invalid"
    ELSE IF top < 0 /\ t[1] = "+" THEN "Invalid"
    ELSE IF ~float_ok(t) THEN "Intermediate"
    ELSE IF in_range(float_parse(t), bottom, top) THEN "Acceptable"
    ELSE IF num_digits(Max(Abs(bottom), Abs(top))) > MaxLen THEN "Intermediate"
    ELSE IF Abs(float_parse(t)) > Pow10(num_digits(Max(Abs(bottom), Abs(top)))) * Unit
                                      - Pow10(MaxDecimals - decimals)
         THEN "Invalid"
    ELSE "Intermediate"

\* IntValidator.fixup of a text the locale can read as a number: it is
\* written again with the locale's group separators, which are then removed
IntValidator_fixup(t) == IF int_ok(t) THEN str(int_parse(t)) ELSE t

\* DoubleValidator.fixup of a text float() can read: the candidates, one for
\* each way round() can go
DoubleValidator_fixup(t, bottom, top, decimals) ==
    LET n == float_parse(t)
        clamped == IF n \div Unit < bottom THEN bottom * Unit
                   ELSE IF -((-n) \div Unit) > top THEN top * Unit
                   ELSE n
    IN  {format_fixed(r, 0, decimals) : r \in round(clamped, decimals)}

(* The editor: float tells FloatLineEdit from IntLineEdit; text, cursor and  *)
(* the selection [selstart, selend) are the QLineEdit's; _value is the      *)
(* cache and inexact says that it is a float sum that is not the decimal    *)
(* number itself; bottom, top and decimals are the validator's; emitted     *)
(* lists the payloads of valueChanged; blocked is signalsBlocked().         *)

\* IntLineEdit.__init__ / FloatLineEdit.__init__, then setMinimum, setMaximum
\* and setDecimals: the text is empty and the cache is 1
LineEdit(float, bottom, top, decimals) ==
    [float |-> float, text |-> <<>>, cursor |-> 0, selstart |-> 0, selend |-> 0,
     _value |-> Unit, inexact |-> FALSE,
     bottom |-> bottom, top |-> top, decimals |-> decimals, emitted |-> <<>>,
     blocked |-> FALSE]

\* a validator that accepts every number, whatever the range
validate_any_number(L, t) ==
    IF ~validateChars(t, L.float, L.decimals) THEN "Invalid"
    ELSE IF (IF L.float THEN float_ok(t) ELSE int_ok(t)) THEN "Acceptable"
    ELSE "Intermediate"

\* self.validator().validate(text, 0)
validate(L, t) ==
    IF L.float THEN QDoubleValidator_validate(t, L.bottom, L.top, L.decimals)
    ELSE QIntValidator_validate(t, L.bottom, L.top)

\* the value getter: int(self.text()) or float(self.text()), 0 on ValueError
text_value(L) ==
    IF L.float THEN (IF float_ok(L.text) THEN float_parse(L.text) ELSE 0)
    ELSE (IF int_ok(L.text) THEN int_parse(L.text) ELSE 0)

\* the value setter: emits when value != self._value, then stores value; a
\* blocked object emits nothing
line_value_set(L, n, inexact) ==
    [L EXCEPT !.emitted = IF ~L.blocked /\ (n # L._value \/ inexact \/ L.inexact)
                          THEN Append(@, n) ELSE @,
              !._value = n,
              !.inexact = inexact]

\* QLineEdit.setText: the cursor goes to the end, the selection is dropped
setText(L, t) == [L EXCEPT !.text = t, !.cursor = Len(t), !.selstart = 0, !.selend = 0]

hasSelectedText(L) == L.selend > L.selstart

\* QLineEdit.setSelection(start, length) with length > 0
setSelection(L, start, length) ==
    IF start < 0 \/ start > Len(L.text) THEN L
    ELSE [L EXCEPT !.selstart = start,
                   !.selend = Min(start + length, Len(L.text)),
                   !.cursor = Min(start + length, Len(L.text))]

\* a strip_padding that stores the value and leaves the text
line_strip_padding_keep_text(L) == line_value_set(L, text_value(L), FALSE)

\* IntLineEdit.strip_padding
line_strip_padding(L) == setText(line_value_set(L, text_value(L), FALSE), str(text_value(L)))

\* a setValue that only writes the text
line_setValue_text_no_strip(L, t) ==
    IF validate(L, t) = "Acceptable" THEN setText(L, t) ELSE L

\* IntLineEdit.setValue(value) with the text t that fixup returned
line_setValue_text(L, t) ==
    IF validate(L, t) = "Acceptable" THEN line_strip_padding(setText(L, t)) ELSE L

\* the texts validator().fixup(str(value)) can return
fixup(L, t) ==
    IF L.float THEN DoubleValidator_fixup(t, L.bottom, L.top, L.decimals)
    ELSE {IntValidator_fixup(t)}

\* IntLineEdit.setValue(value): the outcomes
line_setValue(L, n) == {line_setValue_text(L, t) : t \in fixup(L, str(n))}

\* IntLineEdit.step_index / FloatLineEdit.step_index
step_index(L, text, position) ==
    IF ~L.float THEN Max(1, Len(text) - position)
    ELSE IF find_point(text) = -1 THEN Len(text) - position
    ELSE find_point(text) - position

\* the exponent of the integer editor, for both editors
step_exponent_int(L, index) == index - 1

\* IntLineEdit.step_exponent / FloatLineEdit.step_exponent
step_exponent(L, index) ==
    IF ~L.float THEN index - 1
    ELSE IF index >= 0 THEN index - 1 ELSE index

\* pow(10, exponent)
place_value(exponent) == IF exponent >= 0 THEN Pow10(exponent) * Unit ELSE Unit \div Pow10(-exponent)

\* padding_decimal of FloatLineEdit.match_value_to_text
padding_decimal(text, exponent) == Max(count_decimals(text), -exponent)

\* IntLineEdit.match_value_to_text / FloatLineEdit.match_value_to_text
match_value_to_text(L, n, text, exponent) ==
    IF ~L.float
    THEN format_int(n, count_digits(text) + (IF n < 0 THEN 1 ELSE 0))
    ELSE LET whole == IF find_point(text) = -1 THEN text ELSE SubSeq(text, 1, find_point(text))
             pd == padding_decimal(text, exponent)
         IN  format_fixed(n, count_digits(whole) + (IF n < 0 THEN 1 ELSE 0)
                                 + pd + (IF pd > 0 THEN 1 ELSE 0), pd)

\* a position that is always the last character
step_index_to_position_last(L, index, text) == Len(text) - 1

\* IntLineEdit.step_index_to_position / FloatLineEdit.step_index_to_position
step_index_to_position(L, index, text) ==
    IF L.float /\ find_point(text) > -1
    THEN find_point(text) - (IF index = 0 THEN -1 ELSE index)
    ELSE Len(text) - index

\* the text step works on: self.text() or '0'
step_text(L) == IF L.text = <<>> THEN <<"0">> ELSE L.text

\* the position step works on
step_position(L) == IF hasSelectedText(L) THEN L.selstart ELSE L.cursor

\* step returns False at once: the cursor is on a special character
on_special(L) ==
    /\ step_position(L) < Len(step_text(L))
    /\ ~isdigit(step_text(L)[step_position(L) + 1])

\* the exponent step takes from the text and the position
exponent_of(L) == step_exponent(L, step_index(L, step_text(L), step_position(L)))

\* value = self.value + step
stepped(L, add) == text_value(L) + (IF add THEN 1 ELSE -1) * place_value(exponent_of(L))

\* IntLineEdit.step(add); a text with more decimals than the validator's is
\* Invalid; inexact says that the float sum missed the decimal number
line_step_with(L, add, inexact) ==
    IF on_special(L) THEN [ok |-> FALSE, line |-> L]
    ELSE IF L.float /\ padding_decimal(step_text(L), exponent_of(L)) > L.decimals
    THEN [ok |-> FALSE, line |-> L]
    ELSE Let(stepped(L, add), LAMBDA n :
         Let(match_value_to_text(L, n, step_text(L), exponent_of(L)), LAMBDA text :
             IF validate(L, text) # "Acceptable" THEN [ok |-> FALSE, line |-> L]
             ELSE [ok |-> TRUE,
                   line |-> setSelection(
                                line_value_set(setText(L, text), n, inexact),
                                step_index_to_position(
                                    L, step_index(L, step_text(L), step_position(L)), text),
                                1)]))

\* IntLineEdit.step(add): the outcomes; the sum of two floats can miss the
\* decimal number when that is not a whole number
line_step(L, add) ==
    {line_step_with(L, add, inexact) :
        inexact \in IF L.float /\ stepped(L, add) % Unit # 0 THEN BOOLEAN ELSE {FALSE}}

-----------------------------------------------------------------------------
(* utils.title on a text, character by character *)

MaxNameLen == 4        \* length of a widget name given as a text

LowerChars == <<"a", "b", "i", "p", "q", "s", "x", "y">>
UpperChars == <<"A", "B", "I", "P", "Q", "S", "X", "Y">>

\* str.islower, str.isupper, str.isalpha for one character
islower(c) == \E i \in 1..Len(LowerChars) : LowerChars[i] = c
isupper(c) == \E i \in 1..Len(UpperChars) : UpperChars[i] = c
isalpha(c) == islower(c) \/ isupper(c)

\* str.upper and str.lower for one character
upper(c) == IF islower(c) THEN UpperChars[CHOOSE i \in 1..Len(LowerChars) : LowerChars[i] = c] ELSE c
lower(c) == IF isupper(c) THEN LowerChars[CHOOSE i \in 1..Len(UpperChars) : UpperChars[i] = c] ELSE c

RECURSIVE re_sub(_)

\* a substitution that finds no match
re_sub_none(text) == text

\* re.sub(r'([a-z0-9])([A-Z])', r'\1 \2', text): matches are found from the
\* left and do not overlap; each is replaced by its two characters with a
\* space between them
re_sub(text) ==
    IF Len(text) < 2 THEN text
    ELSE IF (islower(text[1]) \/ isdigit(text[1])) /\ isupper(text[2])
    THEN <<text[1], " ", text[2]>> \o re_sub(SubSeq(text, 3, Len(text)))
    ELSE <<text[1]>> \o re_sub(Tail(text))

\* str.replace('_', ' ')
replace_underscores(text) == [i \in 1..Len(text) |-> IF text[i] = "_" THEN " " ELSE text[i]]

\* str.title(): a letter that follows a letter is lower-cased, every other
\* letter is upper-cased, the other characters stay
str_title(text) ==
    [i \in 1..Len(text) |->
        IF ~isalpha(text[i]) THEN text[i]
        ELSE IF i > 1 /\ isalpha(text[i - 1]) THEN lower(text[i])
        ELSE upper(text[i])]

\* utils.title(text)
utils_title(text) == str_title(replace_underscores(re_sub(text)))

\* the label init_kwargs leaves in kwargs: utils.title(name) for a name that
\* is not empty when no label was passed; absent says that there is none
NoText == [absent |-> TRUE, text |-> <<>>]
Text(t) == [absent |-> FALSE, text |-> t]

init_label(name, label) ==
    IF name # <<>> /\ label.absent THEN Text(utils_title(name)) ELSE label

\* a widget about to be constructed from a name and a label option
Unlabelled(name, given) == [name |-> name, given |-> given, label |-> NoText, built |-> FALSE]

NoLabel == Unlabelled(<<>>, NoText)

-----------------------------------------------------------------------------
(* Options: the entries of PropertyWidget.defaults and of a widget's kwargs. *)
(* A dict is a function from its keys; an entry holds a str or a value.     *)

StrOpt(s) == [str |-> s, val |-> NoneV]
ValOpt(v) == [str |-> "", val |-> v]
TrueV == [ty |-> "bool", x |-> 1, y |-> 0]

\* PropertyWidget.defaults as the class statement leaves it
PropertyWidget_defaults == "default" :> ValOpt(NoneV)

\* dict.update(other) and dict(d, **other): the entries of other win
update(d, other) == other @@ d

\* dict.pop(key): the dict without the key
pop(d, key) == [k \in DOMAIN d \ {key} |-> d[k]]

\* the assignments to self.defaults at the head of IntProperty.__init__,
\* Int2Property.__init__ and StringProperty.__init__: self.defaults is the
\* one dict of PropertyWidget
set_defaults(d, kind) ==
    CASE kind = "Int" ->
           update(d, ("default" :> ValOpt(IntV(0)))
                     @@ ("slider_min" :> ValOpt(IntV(SliderMinDefault)))
                     @@ ("slider_max" :> ValOpt(IntV(SliderMaxDefault)))
                     @@ ("line_min" :> ValOpt(IntV(-MAX_INT)))
                     @@ ("line_max" :> ValOpt(IntV(MAX_INT)))
                     @@ ("show_slider" :> ValOpt(TrueV)))
      [] kind = "Int2" ->
           update(d, ("default" :> ValOpt(Int2V(0, 0)))
                     @@ ("line_min" :> ValOpt(IntV(-MAX_INT)))
                     @@ ("line_max" :> ValOpt(IntV(MAX_INT))))
      [] kind = "Str" -> update(d, "default" :> ValOpt(StrV(0)))

\* utils.title on the names of the widgets of the editor, which are one letter
title(name) == utils_title(<<name>>)[1]

\* the dict PropertyWidget.init_kwargs stores as self.kwargs
init_kwargs(d, kw) ==
    LET k == update(d, kw)
    IN  IF k["name"].str # NONE /\ "label" \notin DOMAIN k
        THEN update(k, "label" :> StrOpt(title(k["name"].str)))
        ELSE k

-----------------------------------------------------------------------------
(* Property widgets *)

NoLink == [ty |-> "none", w |-> 0, s |-> ""]
WidgetLink(wid) == [ty |-> "widget", w |-> wid, s |-> ""]
StrLink(s) == [ty |-> "str", w |-> 0, s |-> s]

\* QWidget/PropertyWidget.__init__ up to connect_ui, before value = default
RawWidget(kind, name) ==
    [kind |-> kind, name |-> name,
     kwargs |-> <<>>,                 \* self.kwargs
     _value |-> NoneV,                \* Int, Int2: self._value
     slider |-> 0,                    \* Int: QSlider position
     line1 |-> IntLineEdit_init,      \* Int: self.line, Int2: self.line1
     line2 |-> IntLineEdit_init,      \* Int2: self.line2
     text |-> 0,                      \* Str: QLineEdit text (index in Strings)
     line_min |-> -MAX_INT, line_max |-> MAX_INT,
     slider_min |-> SliderMinDefault, slider_max |-> SliderMaxDefault,
     link |-> NoLink,                 \* widget.link
     set_value |-> FALSE,             \* hasattr(widget, 'set_value')
     enabled |-> TRUE,                \* widget.isEnabled()
     label_enabled |-> TRUE,          \* the row's QLabel
     checkbox |-> "none",             \* the row's override QCheckBox
     box |-> "",                      \* the sub-box layout holding the row
     parent |-> 0,                    \* the PropertyGroup whose layout holds the row
     conns |-> <<>>]                  \* slots connected to valueChanged, in order

\* the value getter: Int, Int2 read self._value, Str reads line.text()
value(w) == IF w.kind = "Str" THEN StrV(w.text) ELSE w._value

GroupSlot(g) == [ty |-> "group", id |-> g]
SetValueSlot(wid) == [ty |-> "set_value", id |-> wid]

-----------------------------------------------------------------------------
(* The value trees *)

\* PropertyGroup.values getter: {name: widget.value}, in insertion order
PropertyGroup_values(S, g) ==
    [i \in 1..Len(S.groups[g].widgets) |->
        [name |-> S.widgets[S.groups[g].widgets[i]].name,
         value |-> value(S.widgets[S.groups[g].widgets[i]])]]

\* PropertyEditor.values getter: {tab: {group: group.values}}
PropertyEditor_values(S) ==
    [i \in 1..Len(S.egroups) |->
        [tab |-> S.egroups[i].tab,
         groups |-> [j \in 1..Len(S.egroups[i].groups) |->
            [name |-> S.egroups[i].groups[j].name,
             values |-> PropertyGroup_values(S, S.egroups[i].groups[j].gid)]]]]

\* PropertyEditor.group_values_changed: values_changed.emit(self.values)
group_values_changed(S, name, tab, values) ==
    [group |-> name, tab |-> tab, payload |-> PropertyEditor_values(S)]

\* PropertyGroup.value_changed: values_changed.emit(self.values), delivered to
\* every editor the group was added to
PropertyGroup_value_changed(S0, g) ==
    Let(S0, LAMBDA S :
        [S EXCEPT !.edlog = @ \o
            [k \in 1..Len(S.groups[g].listeners) |->
                group_values_changed(S, S.groups[g].listeners[k].name,
                                     S.groups[g].listeners[k].tab,
                                     PropertyGroup_values(S, g))]])

-----------------------------------------------------------------------------
(* Signals and the value setters *)

RECURSIVE value_set(_, _, _)
RECURSIVE valueChanged_emit(_, _, _, _)
RECURSIVE call_slots(_, _, _, _, _)

\* a mirror's set_value slot, partial(setattr, widget, 'value'): an exception
\* inside a slot is printed by the binding and does not reach the emitter
set_value_slot(S, src, dst, v) ==
    Let(value_set(S, dst, v), LAMBDA R :
        [R EXCEPT !.err = S.err,
                  !.delivered = Append(@, [src |-> src, dst |-> dst, v |-> v,
                                           after |-> value(R.widgets[dst])])])

\* one emission of widget wid's valueChanged(v): the slots run in connection
\* order; a slot is the owning group's value_changed or a mirror's set_value
call_slots(S0, wid, v, slots, i) ==
    Let(S0, LAMBDA S :
        IF i > Len(slots) THEN S
        ELSE call_slots(IF slots[i].ty = "group"
                        THEN PropertyGroup_value_changed(S, slots[i].id)
                        ELSE set_value_slot(S, wid, slots[i].id, v),
                        wid, v, slots, i + 1))

\* via: "setter" for the emit that ends a value setter of the widget,
\* "control" for an emission made through a sub-control's own signal
valueChanged_emit(S0, wid, v, via) ==
    Let(S0, LAMBDA S :
        call_slots([S EXCEPT !.emits = Append(@, [w |-> wid, v |-> v, via |-> via])],
                   wid, v, S.widgets[wid].conns, 1))

\* IntProperty.set_slider_value: the slider's signals are blocked around the push
set_slider_value(w, n) ==
    [w EXCEPT !.slider = setSliderPosition(n, w.slider_min, w.slider_max)]

\* IntProperty.set_line_value: the line's signals are blocked around the push
set_line_value(w, n) ==
    [w EXCEPT !.line1 = setValue(w.line1, n, w.line_min, w.line_max).line]

\* IntProperty.value setter
IntProperty_value_set(S0, wid, v) ==
    Let(S0, LAMBDA S :
        IF ~validate_value(S.widgets[wid], v) THEN Raise(S, "TypeError")
        ELSE valueChanged_emit(
                 [S EXCEPT !.widgets[wid] =
                     set_line_value(set_slider_value([@ EXCEPT !._value = v], v.x), v.x)],
                 wid, v, "setter"))

\* IntProperty.line_value_changed, the slot of line.valueChanged
IntProperty_line_value_changed(S0, wid, n) ==
    Let(S0, LAMBDA S :
        valueChanged_emit(
            [S EXCEPT !.widgets[wid] = set_slider_value([@ EXCEPT !._value = IntV(n)], n)],
            wid, IntV(n), "control"))

\* IntProperty.slider_value_changed, the slot of slider.valueChanged
IntProperty_slider_value_changed(S0, wid, p) ==
    Let(S0, LAMBDA S :
        valueChanged_emit(
            [S EXCEPT !.widgets[wid] = set_line_value([@ EXCEPT !._value = IntV(p)], p)],
            wid, IntV(p), "control"))

\* Int2Property.line_value_changed, the slot of line1.valueChanged and line2.valueChanged
Int2Property_line_value_changed(S0, wid) ==
    Let(S0, LAMBDA S :
        Let(Int2V(S.widgets[wid].line1.value, S.widgets[wid].line2.value), LAMBDA nv :
            valueChanged_emit([S EXCEPT !.widgets[wid]._value = nv], wid, nv, "control")))

\* self.line1.setValue(n), self.line2.setValue(n) inside Int2Property's
\* setter: the line's signals are not blocked, so a commit that changes the
\* line's number runs line_value_changed
Int2_line_setValue(S0, wid, i, n) ==
    Let(S0, LAMBDA S :
        Let(setValue(IF i = 1 THEN S.widgets[wid].line1 ELSE S.widgets[wid].line2, n,
                     S.widgets[wid].line_min, S.widgets[wid].line_max), LAMBDA r :
            Let(IF i = 1 THEN [S EXCEPT !.widgets[wid].line1 = r.line]
                         ELSE [S EXCEPT !.widgets[wid].line2 = r.line], LAMBDA S1 :
                IF r.emitted THEN Int2Property_line_value_changed(S1, wid) ELSE S1)))

\* Int2Property.value setter
Int2Property_value_set(S0, wid, v) ==
    Let(S0, LAMBDA S :
        IF ~validate_value(S.widgets[wid], v) THEN Raise(S, "TypeError")
        ELSE valueChanged_emit(
                 Int2_line_setValue(
                     Int2_line_setValue([S EXCEPT !.widgets[wid]._value = v], wid, 1, v.x),
                     wid, 2, v.y),
                 wid, v, "setter"))

\* StringProperty.value setter: line.setText(value); QLineEdit emits textChanged,
\* which is connected to valueChanged, only when the text differs
StringProperty_value_set(S0, wid, v) ==
    Let(S0, LAMBDA S :
        IF ~validate_value(S.widgets[wid], v) THEN Raise(S, "TypeError")
        ELSE IF S.widgets[wid].text = v.x THEN S
        ELSE valueChanged_emit([S EXCEPT !.widgets[wid].text = v.x], wid, v, "control"))

\* widget.value = v
value_set(S0, wid, v) ==
    Let(S0, LAMBDA S :
        CASE S.widgets[wid].kind = "Int" -> IntProperty_value_set(S, wid, v)
          [] S.widgets[wid].kind = "Int2" -> Int2Property_value_set(S, wid, v)
          [] S.widgets[wid].kind = "Str" -> StringProperty_value_set(S, wid, v))

\* the attributes init_kwargs sets from self.kwargs, for the keys present
set_attributes(w, k) ==
    [w EXCEPT !.kwargs = k,
              !.name = k["name"].str,
              !.line_min = IF "line_min" \in DOMAIN k THEN k["line_min"].val.x ELSE @,
              !.line_max = IF "line_max" \in DOMAIN k THEN k["line_max"].val.x ELSE @,
              !.slider_min = IF "slider_min" \in DOMAIN k THEN k["slider_min"].val.x ELSE @,
              !.slider_max = IF "slider_max" \in DOMAIN k THEN k["slider_max"].val.x ELSE @]

\* Kind(name, **kw): the subclass __init__ writes its defaults into the
\* class dict, then PropertyWidget.__init__ runs init_kwargs, init_ui,
\* connect_ui and value = self.default
PropertyWidget_new(S0, kind, name, kw) ==
    Let(S0, LAMBDA S :
        Let(set_defaults(S.defaults, kind), LAMBDA d :
            Let(init_kwargs(d, update(kw, "name" :> StrOpt(name))), LAMBDA k :
                value_set([S EXCEPT !.defaults = d,
                                    !.widgets = Append(@, set_attributes(RawWidget(kind, name), k))],
                          Len(S.widgets) + 1, k["default"].val))))

\* Kind(name)
PropertyWidget_init(S0, kind, name) == PropertyWidget_new(S0, kind, name, <<>>)

-----------------------------------------------------------------------------
(* PropertyGroup *)

Names(S, g) == {S.widgets[S.groups[g].widgets[i]].name : i \in 1..Len(S.groups[g].widgets)}

InSeq(x, seq) == \E i \in 1..Len(seq) : seq[i] = x

\* Signal.connect(slot): appended to the receivers of the signal
connect(S, src, slot) == [S EXCEPT !.widgets[src].conns = Append(@, slot)]

\* disconnect that leaves the slot connected
disconnect_keeps_slot(S0, src, slot) ==
    Let(S0, LAMBDA S :
        IF \E i \in 1..Len(S.widgets[src].conns) : S.widgets[src].conns[i] = slot
        THEN S ELSE Raise(S, "RuntimeError"))

\* Signal.disconnect(slot): a RuntimeError when the slot is not connected
disconnect(S0, src, slot) ==
    Let(S0, LAMBDA S :
        IF ~InSeq(slot, S.widgets[src].conns) THEN Raise(S, "RuntimeError")
        ELSE [S EXCEPT !.widgets[src].conns = SelectSeq(@, LAMBDA c : c # slot)])

\* row_link without the disconnect of the enabled branch
row_link_no_disconnect(S0, wid, enabled) ==
    Let(S0, LAMBDA S :
        Let(S.widgets[wid].link, LAMBDA lw :
            IF lw.ty # "widget" THEN Raise(S, "AttributeError")
            ELSE IF enabled THEN S
            ELSE Let(value_set(S, wid, value(S.widgets[lw.w])), LAMBDA S1 :
                     IF S1.err # "none" THEN S1
                     ELSE connect(S1, lw.w, SetValueSlot(wid)))))

\* the part of set_widget_row_enabled under "if self.link is not None"
row_link(S0, wid, enabled) ==
    Let(S0, LAMBDA S :
        Let(S.widgets[wid].link, LAMBDA lw :
            IF lw.ty # "widget" THEN Raise(S, "AttributeError")
            ELSE IF enabled THEN disconnect(S, lw.w, SetValueSlot(wid))
            ELSE Let(value_set(S, wid, value(S.widgets[lw.w])), LAMBDA S1 :
                     IF S1.err # "none" THEN S1
                     ELSE connect(S1, lw.w, SetValueSlot(wid)))))

\* set_widget_row_enabled without the part under "if self.link is not None"
set_widget_row_enabled_unlinked(S0, g, wid, enabled) ==
    Let(S0, LAMBDA S :
        [S EXCEPT !.widgets[wid].label_enabled = enabled,
                  !.widgets[wid].enabled = enabled])

\* PropertyGroup.set_widget_row_enabled(checkbox, enabled), wid the widget in
\* the checkbox's row
set_widget_row_enabled(S0, g, wid, enabled) ==
    Let(S0, LAMBDA S :
        IF S.groups[g].link = 0
        THEN [S EXCEPT !.widgets[wid].label_enabled = enabled,
                       !.widgets[wid].enabled = enabled]
        ELSE row_link([S EXCEPT !.widgets[wid].label_enabled = enabled,
                                !.widgets[wid].enabled = enabled,
                                !.widgets[wid].set_value = TRUE],
                      wid, enabled))

\* PropertyGroup.override_changed, the slot of the row checkbox's stateChanged
override_changed(S0, g, wid) ==
    Let(S0, LAMBDA S :
        set_widget_row_enabled(S, g, wid, S.widgets[wid].checkbox = "checked"))

\* the rows of PropertyGroup.add_property: the sub-box, the label and the widget
add_row(S, g, wid, box) ==
    IF box = NONE THEN [S EXCEPT !.widgets[wid].parent = g]
    ELSE [S EXCEPT !.groups[g].boxes = IF InSeq(box, @) THEN @ ELSE Append(@, box),
                   !.widgets[wid].box = box,
                   !.widgets[wid].parent = g]

\* PropertyGroup.add_property(widget, link, box)
PropertyGroup_add_property(S0, g, wid, link, box) ==
    Let(S0, LAMBDA S :
        IF S.widgets[wid].name \in Names(S, g) THEN Raise(S, "ValueError")
        ELSE Let(IF link = NoLink THEN add_row(S, g, wid, box)
                 ELSE set_widget_row_enabled(
                          [add_row(S, g, wid, box) EXCEPT
                              !.widgets[wid].checkbox = "unchecked",
                              !.widgets[wid].link = link],
                          g, wid, FALSE), LAMBDA S1 :
                 IF S1.err # "none" THEN S1
                 ELSE [connect(S1, wid, GroupSlot(g)) EXCEPT
                          !.groups[g].widgets = Append(@, wid)]))

\* cls.from_widget(widget, **kw): new_kwargs is widget.kwargs itself, so
\* update and pop('name') change the source's kwargs
PropertyWidget_from_widget(S0, cls, src, kw) ==
    Let(S0, LAMBDA S :
        IF S.widgets[src].kind # cls THEN Raise(S, "TypeError")
        ELSE Let(update(S.widgets[src].kwargs, kw), LAMBDA new_kwargs :
                 IF "name" \notin DOMAIN new_kwargs
                 THEN Raise([S EXCEPT !.widgets[src].kwargs = new_kwargs], "KeyError")
                 ELSE PropertyWidget_new(
                          [S EXCEPT !.widgets[src].kwargs = pop(new_kwargs, "name")],
                          cls, new_kwargs["name"].str, pop(new_kwargs, "name"))))

\* cls.from_widget(linked_widget) with cls = linked_widget.__class__
from_widget(S0, src) == PropertyWidget_from_widget(S0, S0.widgets[src].kind, src, <<>>)

RECURSIVE link_widgets(_, _, _, _)
\* the loop of PropertyGroup.__init__ over self.link.widgets.values()
link_widgets(S0, g, link, i) ==
    Let(S0, LAMBDA S :
        IF S.err # "none" \/ i > Len(S.groups[link].widgets) THEN S
        ELSE Let(from_widget(S, S.groups[link].widgets[i]), LAMBDA S1 :
                 IF S1.err # "none" THEN S1
                 ELSE link_widgets(
                          PropertyGroup_add_property(
                              S1, g, Len(S1.widgets),
                              WidgetLink(S.groups[link].widgets[i]), NONE),
                          g, link, i + 1)))

\* PropertyGroup.__init__(link); link = 0 is link=None
PropertyGroup_init(S0, link) ==
    Let(S0, LAMBDA S :
        Let([S EXCEPT !.groups = Append(@,
                [link |-> link, widgets |-> <<>>, boxes |-> <<>>, listeners |-> <<>>])],
            LAMBDA S1 :
                IF link = 0 THEN S1 ELSE link_widgets(S1, Len(S1.groups), link, 1)))

-----------------------------------------------------------------------------
(* PropertyEditor *)

HasTab(S, tab) == \E i \in 1..Len(S.egroups) : S.egroups[i].tab = tab
TabIndex(S, tab) == CHOOSE i \in 1..Len(S.egroups) : S.egroups[i].tab = tab

\* self.groups.get(tab, {}) as a sequence of [name, gid]
GroupsOf(S, tab) == IF HasTab(S, tab) THEN S.egroups[TabIndex(S, tab)].groups ELSE <<>>

HasGroup(S, tab, name) == \E j \in 1..Len(GroupsOf(S, tab)) : GroupsOf(S, tab)[j].name = name
GroupId(S, tab, name) ==
    GroupsOf(S, tab)[CHOOSE j \in 1..Len(GroupsOf(S, tab)) : GroupsOf(S, tab)[j].name = name].gid

\* PropertyEditor.create_tab and add_tab
create_tab(S0, name) ==
    Let(S0, LAMBDA S :
        IF InSeq(name, S.tabs) THEN Raise(S, "ValueError")
        ELSE IF name = NONE THEN Raise(S, "TypeError")
        ELSE [S EXCEPT !.tabs = Append(@, name)])

\* self.groups[tab][name] = widget, after "if not self.groups.get(tab): self.groups[tab] = {}"
set_group(S, name, g, tab) ==
    IF ~HasTab(S, tab)
    THEN [S EXCEPT !.egroups = Append(@, [tab |-> tab, groups |-> <<[name |-> name, gid |-> g]>>])]
    ELSE IF HasGroup(S, tab, name)
    THEN [S EXCEPT !.egroups[TabIndex(S, tab)].groups =
             [j \in 1..Len(@) |-> IF @[j].name = name THEN [name |-> name, gid |-> g] ELSE @[j]]]
    ELSE [S EXCEPT !.egroups[TabIndex(S, tab)].groups = Append(@, [name |-> name, gid |-> g])]

\* PropertyEditor.add_property_group(name, widget, tab)
add_property_group(S0, name, g, tab) ==
    Let(S0, LAMBDA S :
        Let(IF tab = NONE \/ InSeq(tab, S.tabs) THEN S ELSE create_tab(S, tab), LAMBDA S1 :
            IF S1.err # "none" THEN S1
            ELSE Let([S1 EXCEPT !.groups[g].listeners = Append(@, [name |-> name, tab |-> tab])],
                     LAMBDA S2 : set_group(S2, name, g, tab))))

\* create_property_group that constructs the group before it checks the name
create_property_group_late_check(S0, name, tab, link) ==
    Let(S0, LAMBDA S :
        Let(PropertyGroup_init(S, link), LAMBDA S1 :
            IF S1.err # "none" THEN S1
            ELSE IF HasGroup(S, tab, name) THEN Raise(S1, "ValueError")
            ELSE add_property_group(S1, name, Len(S1.groups), tab)))

\* PropertyEditor.create_property_group(name, tab, link=link)
create_property_group(S0, name, tab, link) ==
    Let(S0, LAMBDA S :
        IF HasGroup(S, tab, name) THEN Raise(S, "ValueError")
        ELSE Let(PropertyGroup_init(S, link), LAMBDA S1 :
                 IF S1.err # "none" THEN S1
                 ELSE add_property_group(S1, name, Len(S1.groups), tab)))

\* the group PropertyEditor.add_property looks up or creates
lookup_group(S0, group, tab) ==
    Let(S0, LAMBDA S :
        IF GroupsOf(S, tab) # <<>>
        THEN IF HasGroup(S, tab, group) THEN S
             ELSE create_property_group(S, group, tab, 0)
        ELSE Let(IF tab # NONE THEN create_tab(S, tab) ELSE S, LAMBDA T :
                 IF T.err # "none" THEN T
                 ELSE create_property_group(T, group, tab, 0)))

\* PropertyEditor.add_property(widget, group, tab, box): the group's
\* add_property is called as add_property(widget, box), so box arrives as
\* its second parameter, link
PropertyEditor_add_property(S0, wid, group, tab, box) ==
    Let(lookup_group(S0, group, tab), LAMBDA S1 :
        IF S1.err # "none" THEN S1
        ELSE PropertyGroup_add_property(S1, GroupId(S1, tab, group), wid,
                                        IF box = NONE THEN NoLink ELSE StrLink(box),
                                        NONE))

-----------------------------------------------------------------------------
(* Writing value mappings.  A mapping is a function: DOMAIN m are its keys. *)

RECURSIVE group_values_loop(_, _, _, _)

\* the loop as a replace: a widget whose name is not in the mapping is reset
\* to its default
group_values_loop_replace(S0, g, m, i) ==
    Let(S0, LAMBDA S :
        IF S.err # "none" \/ i > Len(S.groups[g].widgets) THEN S
        ELSE group_values_loop(
                 value_set(S, S.groups[g].widgets[i],
                           IF S.widgets[S.groups[g].widgets[i]].name \in DOMAIN m
                           THEN m[S.widgets[S.groups[g].widgets[i]].name]
                           ELSE default(S.widgets[S.groups[g].widgets[i]].kind)),
                 g, m, i + 1))

\* the loop of the PropertyGroup.values setter over self.widgets.items()
group_values_loop(S0, g, m, i) ==
    Let(S0, LAMBDA S :
        IF S.err # "none" \/ i > Len(S.groups[g].widgets) THEN S
        ELSE group_values_loop(
                 IF S.widgets[S.groups[g].widgets[i]].name \in DOMAIN m
                 THEN value_set(S, S.groups[g].widgets[i],
                                m[S.widgets[S.groups[g].widgets[i]].name])
                 ELSE S,
                 g, m, i + 1))

\* PropertyGroup.values setter
PropertyGroup_values_set(S, g, m) == group_values_loop(S, g, m, 1)

RECURSIVE editor_groups_loop(_, _, _, _)
\* the inner loop of the PropertyEditor.values setter over groups.items()
editor_groups_loop(S0, gs, m, j) ==
    Let(S0, LAMBDA S :
        IF S.err # "none" \/ j > Len(gs) THEN S
        ELSE editor_groups_loop(
                 IF gs[j].name \in DOMAIN m
                 THEN PropertyGroup_values_set(S, gs[j].gid, m[gs[j].name]) ELSE S,
                 gs, m, j + 1))

RECURSIVE editor_tabs_loop(_, _, _)
\* the outer loop of the PropertyEditor.values setter over self.groups.items()
editor_tabs_loop(S0, v, i) ==
    Let(S0, LAMBDA S :
        IF S.err # "none" \/ i > Len(S.egroups) THEN S
        ELSE editor_tabs_loop(
                 IF S.egroups[i].tab \in DOMAIN v
                 THEN editor_groups_loop(S, S.egroups[i].groups, v[S.egroups[i].tab], 1)
                 ELSE S,
                 v, i + 1))

\* PropertyEditor.values setter
PropertyEditor_values_set(S, v) == editor_tabs_loop(S, v, 1)

-----------------------------------------------------------------------------
(* data.py: Int2 and Float2.  A component is a Python object: an int, a    *)
(* float, or the NotImplemented that int.__truediv__ and int.__floordiv__  *)
(* return for a float operand; n is the number in Unit-ths.  A quotient is *)
(* kept to MaxDecimals places.                                             *)

Num(ty, n) == [n |-> n, ty |-> ty]
NotImplemented == [n |-> 0, ty |-> "NotImplemented"]

Vector(cls, x, y) == [x |-> x, y |-> y, cls |-> cls]
NoVector == Vector("none", NotImplemented, NotImplemented)

\* isinstance(other, Int2) or isinstance(other, Float2), against a scalar
IsVector(other) == "cls" \in DOMAIN other

\* a conversion that drops the fraction, toward zero
math_trunc(n) == IF n >= 0 THEN (n \div Unit) * Unit ELSE -(((-n) \div Unit) * Unit)

\* math.floor(value)
math_floor(n) == (n \div Unit) * Unit

\* Int2.__post_init__ for one attribute: a float is floored, then int(value);
\* int(NotImplemented) raises TypeError
post_init(c) ==
    CASE c.ty = "float" -> [err |-> "none", c |-> Num("int", math_floor(c.n))]
      [] c.ty = "int" -> [err |-> "none", c |-> c]
      [] OTHER -> [err |-> "TypeError", c |-> c]

\* cls(x, y): the dataclass __init__ stores the arguments; Int2 then runs
\* __post_init__, Float2 has none and keeps the objects as they are
construct(cls, x, y) ==
    IF cls = "Float2" THEN [err |-> "none", v |-> Vector(cls, x, y)]
    ELSE IF post_init(x).err # "none" THEN [err |-> post_init(x).err, v |-> NoVector]
    ELSE IF post_init(y).err # "none" THEN [err |-> post_init(y).err, v |-> NoVector]
    ELSE [err |-> "none", v |-> Vector(cls, post_init(x).c, post_init(y).c)]

\* a / b to MaxDecimals places, for b # 0
quotient(a, b) == IF b > 0 THEN (a * Unit) \div b ELSE ((-a) * Unit) \div (-b)

\* a.__truediv__(b) and, with floor, a.__floordiv__(b), called as methods:
\* NotImplemented has neither method; an int returns NotImplemented for an
\* operand that is not an int, a float for one that is not a number; a zero
\* divisor raises ZeroDivisionError
dunder_div(a, b, floor) ==
    CASE a.ty = "NotImplemented" -> [err |-> "AttributeError", c |-> NotImplemented]
      [] b.ty = "NotImplemented" -> [err |-> "none", c |-> NotImplemented]
      [] a.ty = "int" /\ b.ty = "float" -> [err |-> "none", c |-> NotImplemented]
      [] b.n = 0 -> [err |-> "ZeroDivisionError", c |-> NotImplemented]
      [] floor -> [err |-> "none", c |-> Num(a.ty, math_floor(quotient(a.n, b.n)))]
      [] OTHER -> [err |-> "none", c |-> Num("float", quotient(a.n, b.n))]

\* a + b, a - b, a * b on two component objects
binary_op(name, a, b) ==
    IF a.ty = "NotImplemented" \/ b.ty = "NotImplemented"
    THEN [err |-> "TypeError", c |-> NotImplemented]
    ELSE [err |-> "none",
          c |-> Num(IF a.ty = "int" /\ b.ty = "int" THEN "int" ELSE "float",
                    CASE name = "add" -> a.n + b.n
                      [] name = "sub" -> a.n - b.n
                      [] name = "mul" -> (a.n * b.n) \div Unit)]

\* the result of an operator method from the two component results
combine(cls, rx, ry) ==
    IF rx.err # "none" THEN [err |-> rx.err, v |-> NoVector]
    ELSE IF ry.err # "none" THEN [err |-> ry.err, v |-> NoVector]
    ELSE construct(cls, rx.c, ry.c)

\* Int2.__truediv__, Int2.__floordiv__, Float2.__truediv__, Float2.__floordiv__:
\* other.x raises AttributeError when other is a number
Vector_div(v, other, floor) ==
    IF ~IsVector(other) THEN [err |-> "AttributeError", v |-> NoVector]
    ELSE combine(v.cls, dunder_div(v.x, other.x, floor), dunder_div(v.y, other.y, floor))

\* self.x + other.x if isinstance(other, self.__class__) else self.x + other;
\* a number and a vector of the other class do not add
component_op(name, cls, a, other, attr) ==
    IF IsVector(other) /\ other.cls = cls THEN binary_op(name, a, other[attr])
    ELSE IF IsVector(other) THEN [err |-> "TypeError", c |-> NotImplemented]
    ELSE binary_op(name, a, other)

\* __add__, __sub__, __mul__ of Int2 and of Float2
Vector_op(v, other, name) ==
    combine(v.cls, component_op(name, v.cls, v.x, other, "x"),
                   component_op(name, v.cls, v.y, other, "y"))

\* the instance under test and the record of the last operation on it:
\* kind names the operation, a and b are the arguments of a construction (a
\* the object assigned, attr the attribute, for an assignment), other is the
\* right-hand operand, res the vector returned and err the exception
VecState(v, kind, a, b, attr, other, res, err) ==
    [a |-> a, b |-> b, kind |-> kind, err |-> err, v |-> v, other |-> other,
     attr |-> attr, res |-> res]

\* Int2(): both fields take the default 0
NoVec ==
    VecState(Vector("Int2", Num("int", 0), Num("int", 0)), "init",
             Num("int", 0), Num("int", 0), "", Num("int", 0), NoVector, "none")


-----------------------------------------------------------------------------
(* widgets.py: a property with its sub-controls.  IntProperty and          *)
(* FloatProperty hold one numeric editor and a QSlider, ColorProperty      *)
(* three float editors and a swatch button, PathProperty a QLineEdit and   *)
(* a browse button.  A signal of a sub-control is delivered by calling the *)
(* connected slot as soon as the operation that emitted it returns; calls  *)
(* logs every invocation of slider_value_changed and line_value_changed    *)
(* with the number of pushes (set_slider_value, set_line_value) that were  *)
(* in progress when it ran.                                                *)

\* the states F leads to from any state of Ps
Bind(Ps, F(_)) == UNION {F(x) : x \in Ps}

\* a Python number: the decimal number n, in units of 1/Unit, it stands for,
\* and how the double came about: "literal" is the double nearest to n (an
\* int, a parsed text, a rounded float), "slider" the double that
\* FloatProperty.slider_value_changed computed from a position, "sum" a sum
\* of floats, which may have missed n
Number(n, how) == [n |-> n, how |-> how]

\* FloatProperty.set_slider_value in IEEE doubles, for the default slider
\* range 0..10 (slider positions 0..100).  SliderMisses: the positions p for
\* which int(min(max((0 + 10 * (p / 100)) / 10, 0), 1) * 100 + 0) is p - 1.
\* LiteralMisses: the values t / 10 for which
\* int(min(max(float(t / 10) / 10, 0), 1) * 100 + 0) is t - 1.  For every
\* other position and every other value with at most three decimals the
\* result is the exact quotient, truncated.
SliderMisses == {29, 47, 57, 58, 83, 87, 91, 94}
LiteralMisses == {7, 14, 28, 29, 33, 56, 58, 66, 87, 91}

\* QColor: three 16-bit channels; QColor() is invalid
MaxChannel == Pow2(16) - 1
QColor(r, g, b) == [valid |-> TRUE, r |-> r, g |-> g, b |-> b]
InvalidColor == [valid |-> FALSE, r |-> 0, g |-> 0, b |-> 0]

\* QColor.getRgbF()[i], to the decimals the editor rounds it to
getRgbF(ch) == (2 * ch * Unit + MaxChannel) \div (2 * MaxChannel)

\* QColor.fromRgbF: a component outside [0, 1] gives an invalid colour
fromRgbF(r, g, b) ==
    IF \E n \in {r, g, b} : n < 0 \/ n > Unit
    THEN InvalidColor
    ELSE QColor((2 * r * MaxChannel + Unit) \div (2 * Unit),
                (2 * g * MaxChannel + Unit) \div (2 * Unit),
                (2 * b * MaxChannel + Unit) \div (2 * Unit))

\* QSlider: setMinimum and setMaximum keep the value (initially 0) in range
QSlider(minimum, maximum) ==
    [value |-> Min(Max(0, minimum), maximum), minimum |-> minimum, maximum |-> maximum,
     blocked |-> FALSE, emitted |-> <<>>]

\* QSlider.setSliderPosition: bounded to the range; valueChanged when the
\* value changes and signals are not blocked
QSlider_setSliderPosition(s, position) ==
    LET p == setSliderPosition(position, s.minimum, s.maximum)
    IN  [s EXCEPT !.value = p,
                  !.emitted = IF p # s.value /\ ~s.blocked THEN Append(@, p) ELSE @]

\* init_ui: the exponent of the slider range, rounded down unless its
\* fraction exceeds 0.8 (10^0.8 = 6.3096)
slider_exponent(num_range) ==
    LET k == num_digits(num_range) - 1
    IN  IF num_range * 10000 > 63095 * Pow10(k) THEN k + 1 ELSE k

\* FloatProperty.init_ui: slider bound * pow(10, -(exponent - 2)), truncated
normalized(bound, exponent) ==
    IF exponent <= 2 THEN bound * Pow10(2 - exponent)
    ELSE IF bound >= 0 THEN bound \div Pow10(exponent - 2)
    ELSE -((-bound) \div Pow10(exponent - 2))

\* the widget before its first value is set
Property(kind, lines, slider, slider_min, slider_max) ==
    [kind |-> kind, _value |-> Number(0, "literal"), color |-> InvalidColor,
     lines |-> lines, slider |-> slider,
     slider_min |-> slider_min, slider_max |-> slider_max,
     button |-> InvalidColor, text |-> "", spin |-> 0,
     emitted |-> <<>>, calls |-> <<>>, pushing |-> 0]

NoProp == Property("none", <<>>, QSlider(0, 0), 0, 0)

\* self.valueChanged.emit(value)
emit(P, v) == [P EXCEPT !.emitted = Append(@, v)]

\* a slot starts to run
called(P, h) == [P EXCEPT !.calls = Append(@, [h |-> h, pushing |-> P.pushing])]

\* FloatProperty.slider_value_changed: the float a slider position stands for
float_value(P, position) ==
    LET slider_range == P.slider.maximum - P.slider.minimum
        offset == position - P.slider.minimum
    IN  Number(P.slider_min * Unit
                 + ((P.slider_max - P.slider_min) * Unit * offset) \div slider_range,
               "slider")

\* int(x) of the double that stands for the whole number q: q itself, or
\* the next whole number toward zero when the double fell short of q
truncated(q, v) ==
    CASE v.how = "slider" -> {IF q \in SliderMisses THEN q - 1 ELSE q}
      [] v.how = "literal" -> {IF /\ v.n % (Unit \div 10) = 0
                                  /\ v.n \div (Unit \div 10) \in LiteralMisses
                               THEN q - 1 ELSE q}
      [] OTHER -> {q, IF q > 0 THEN q - 1 ELSE q}

\* FloatProperty.set_slider_value: the slider positions a float is sent to;
\* the percentage is bounded to [0, 1], and the float product is truncated
\* when setSliderPosition takes it as an int
float_positions(P, v) ==
    LET slider_range == P.slider.maximum - P.slider.minimum
        den == (P.slider_max - P.slider_min) * Unit
        num == v.n - P.slider_min * Unit
        whole == P.slider.minimum + (num * slider_range) \div den
    IN  IF num <= 0 THEN {P.slider.minimum}
        ELSE IF num >= den THEN {P.slider.maximum}
        ELSE IF (num * slider_range) % den = 0 THEN truncated(whole, v)
        ELSE {whole}

RECURSIVE line_value_changed(_, _, _)
RECURSIVE slider_value_changed(_, _)

\* the valueChanged signals line i holds are delivered to line_value_changed
deliver_line(P, i) ==
    IF P.lines[i].emitted = <<>> THEN {P}
    ELSE line_value_changed([P EXCEPT !.lines[i].emitted = <<>>], i,
                            Number(P.lines[i].emitted[1],
                                   IF P.lines[i].inexact THEN "sum" ELSE "literal"))

\* the valueChanged signals the slider holds are delivered to slider_value_changed
deliver_slider(P) ==
    IF P.slider.emitted = <<>> THEN {P}
    ELSE slider_value_changed([P EXCEPT !.slider.emitted = <<>>], P.slider.emitted[1])

\* a push that leaves the signals of the editor unblocked
set_line_value_unblocked(P, i, n) ==
    Bind(line_setValue(P.lines[i], n), LAMBDA L :
    Bind(deliver_line([P EXCEPT !.lines[i] = L, !.pushing = @ + 1], i), LAMBDA Q :
        {[Q EXCEPT !.pushing = @ - 1]}))

\* blockSignals(True); line.setValue(value); blockSignals(False)
set_line_value_blocked(P, i, n) ==
    Bind(line_setValue([P.lines[i] EXCEPT !.blocked = TRUE], n), LAMBDA L :
    Bind(deliver_line([P EXCEPT !.lines[i] = L, !.pushing = @ + 1], i), LAMBDA Q :
        {[Q EXCEPT !.lines[i].blocked = FALSE, !.pushing = @ - 1]}))

\* IntProperty.set_line_value
IntProperty_set_line_value(P, v) == set_line_value_blocked(P, 1, v.n)

\* IntProperty.set_slider_value
IntProperty_set_slider_value(P, position) ==
    Bind({[P EXCEPT !.slider = QSlider_setSliderPosition([@ EXCEPT !.blocked = TRUE], position),
                    !.pushing = @ + 1]}, LAMBDA Q1 :
    Bind(deliver_slider(Q1), LAMBDA Q :
        {[Q EXCEPT !.slider.blocked = FALSE, !.pushing = @ - 1]}))

\* FloatProperty.set_slider_value
FloatProperty_set_slider_value(P, v) ==
    Bind(float_positions(P, v), LAMBDA position : IntProperty_set_slider_value(P, position))

\* self.set_slider_value(value), by the class of self
Property_set_slider_value(P, v) ==
    IF P.kind = "Float" THEN FloatProperty_set_slider_value(P, v)
    ELSE IntProperty_set_slider_value(P, v.n \div Unit)

\* ColorProperty.set_line_value, lines i..3
RECURSIVE ColorProperty_set_line_value(_, _, _)
ColorProperty_set_line_value(P, color, i) ==
    IF i > Len(P.lines) THEN {P}
    ELSE Bind(set_line_value_blocked(P, i, getRgbF(<<color.r, color.g, color.b>>[i])), LAMBDA Q :
              ColorProperty_set_line_value(Q, color, i + 1))

\* ColorProperty.set_button_value
set_button_value(P, color) == [P EXCEPT !.button = color]

\* IntProperty.slider_value_changed, reached through FloatProperty's for a
\* FloatProperty
slider_value_changed(P, position) ==
    Bind({called(P, "slider_value_changed")}, LAMBDA Q0 :
    Bind({IF Q0.kind = "Float" THEN float_value(Q0, position)
                               ELSE Number(position * Unit, "literal")}, LAMBDA v :
    Bind(IntProperty_set_line_value([Q0 EXCEPT !._value = v], v), LAMBDA Q :
        {emit(Q, v)})))

\* IntProperty.line_value_changed and ColorProperty.line_value_changed
line_value_changed(P, i, v) ==
    Bind({called(P, "line_value_changed")}, LAMBDA Q0 :
        IF Q0.kind = "Color"
        THEN Bind({fromRgbF(text_value(Q0.lines[1]), text_value(Q0.lines[2]),
                            text_value(Q0.lines[3]))}, LAMBDA color :
                 {emit(set_button_value([Q0 EXCEPT !.color = color], color), color)})
        ELSE Bind(Property_set_slider_value([Q0 EXCEPT !._value = v], v), LAMBDA Q :
                 {emit(Q, v)}))

\* the value setter of IntProperty and FloatProperty
IntProperty_setter(P, v) ==
    Bind(Property_set_slider_value([P EXCEPT !._value = v], v), LAMBDA Q1 :
    Bind(IntProperty_set_line_value(Q1, v), LAMBDA Q :
        {emit(Q, v)}))

\* the value setter of ColorProperty
ColorProperty_setter(P, color) ==
    Bind({set_button_value([P EXCEPT !.color = color], color)}, LAMBDA Q1 :
    Bind(ColorProperty_set_line_value(Q1, color, 1), LAMBDA Q :
        {emit(Q, color)}))

\* a select_color that takes whatever the dialog returned
select_color_any(P, color) ==
    Bind(ColorProperty_set_line_value([P EXCEPT !.color = color], color, 1), LAMBDA Q :
        {emit(set_button_value(Q, color), color)})

\* ColorProperty.select_color with the colour the dialog returned
select_color(P, color) ==
    IF color.valid
    THEN Bind(ColorProperty_set_line_value([P EXCEPT !.color = color], color, 1), LAMBDA Q :
             {emit(set_button_value(Q, color), color)})
    ELSE {P}

\* the value setter of PathProperty: QLineEdit.setText emits textChanged,
\* which is connected to valueChanged, when the text changes
PathProperty_setter(P, path) ==
    {[P EXCEPT !.text = path,
               !.emitted = IF path # P.text THEN Append(@, path) ELSE @]}

\* PathProperty.browse with the path the dialog returned
browse(P, path) == IF path # "" THEN PathProperty_setter(P, path) ELSE {P}

\* the value getter
Property_value(P) ==
    CASE P.kind = "Path" -> P.text
      [] P.kind = "Color" -> P.color
      [] OTHER -> P._value

\* the widget as its constructor leaves it: value = default, nothing
\* connected to valueChanged yet
constructed(Ps) == {[Q EXCEPT !.emitted = <<>>, !.calls = <<>>] : Q \in Ps}

IntProperty(slider_min, slider_max, line_min, line_max) ==
    constructed(IntProperty_setter(
        Property("Int", <<LineEdit(FALSE, line_min, line_max, 0)>>,
                 QSlider(slider_min, slider_max), slider_min, slider_max),
        Number(0, "literal")))

FloatProperty(slider_min, slider_max) ==
    constructed(IntProperty_setter(
        Property("Float", <<LineEdit(TRUE, -MAX_INT, MAX_INT, MaxDecimals)>>,
                 QSlider(normalized(slider_min, slider_exponent(Abs(slider_max - slider_min))),
                         normalized(slider_max, slider_exponent(Abs(slider_max - slider_min)))),
                 slider_min, slider_max),
        Number(0, "literal")))

ColorProperty ==
    constructed(ColorProperty_setter(
        Property("Color", [i \in 1..3 |-> LineEdit(TRUE, 0, MAX_INT, MaxDecimals)],
                 QSlider(0, 0), 0, 0),
        QColor(0, 0, 0)))

PathProperty ==
    constructed(PathProperty_setter(Property("Path", <<>>, QSlider(0, 0), 0, 0), ""))

-----------------------------------------------------------------------------
(* qtpropertyeditor/widgets.py: the earlier FloatParameterWidget, a        *)
(* QDoubleSpinBox with two decimals and a QSlider whose range is the       *)
(* slider range times 100.  The widget is kept in the record of a          *)
(* property, with the value of the spin box in spin.                       *)

PARM_MIN == 0
PARM_MAX == 10000000

\* the decimals and the slider scale that init_ui fixes
SpinDecimals == 2
SliderScale == 100

\* FloatParameterWidget.set_slider_value in IEEE doubles for slider_min = 0,
\* slider_max = 1: the whole positions q for which
\* int(min(max((q / 100 - 0) / (1 - 0), 0), 1) * 100 + 0) is q - 1
ParameterMisses == {29, 57, 58}

\* QDoubleSpinBox.setValue: the value is rounded to the decimals and bounded
\* to [minimum, maximum]
QDoubleSpinBox_setValue(n) ==
    {IF r < PARM_MIN * Unit THEN PARM_MIN * Unit
     ELSE IF r \div Unit >= PARM_MAX THEN PARM_MAX * Unit
     ELSE r : r \in round(n, SpinDecimals)}

\* FloatParameterWidget.set_spin_value
set_spin_value(P, v) == {[P EXCEPT !.spin = r] : r \in QDoubleSpinBox_setValue(v.n)}

\* the position FloatParameterWidget.set_slider_value computes, truncated as
\* setSliderPosition takes it: the percentage is bounded to [0, 1], scaled by
\* slider.maximum() and shifted by slider.minimum()
parameter_position(P, v) ==
    LET den == (P.slider_max - P.slider_min) * Unit
        num == v.n - P.slider_min * Unit
        scaled == num * P.slider.maximum
        whole == scaled \div den + P.slider.minimum
    IN  IF num <= 0 THEN P.slider.minimum
        ELSE IF num >= den THEN P.slider.maximum + P.slider.minimum
        ELSE IF scaled % den = 0
        THEN IF P.slider_min = 0 /\ P.slider_max = 1 /\ whole \in ParameterMisses
             THEN whole - 1 ELSE whole
        ELSE IF whole < 0 THEN whole + 1 ELSE whole

\* FloatParameterWidget.set_slider_value
FloatParameterWidget_set_slider_value(P, v) ==
    [P EXCEPT !.slider = [QSlider_setSliderPosition([@ EXCEPT !.blocked = TRUE],
                                                    parameter_position(P, v))
                              EXCEPT !.blocked = FALSE]]

\* the value setter of FloatParameterWidget
FloatParameterWidget_setter(P, v) ==
    Bind({FloatParameterWidget_set_slider_value([P EXCEPT !._value = v], v)}, LAMBDA Q :
        set_spin_value(Q, v))

\* FloatParameterWidget.slider_value_changed: the value of a position,
\* percentage = value / (slider.maximum() - slider.minimum())
slider_value(P, position) ==
    Number(P.slider_min * Unit
             + ((P.slider_max - P.slider_min) * Unit * position)
                   \div (P.slider.maximum - P.slider.minimum),
           "slider")

\* FloatParameterWidget.slider_value_changed
FloatParameterWidget_slider_value_changed(P, position) ==
    FloatParameterWidget_setter(P, slider_value(P, position))

\* FloatParameterWidget.spin_value_changed
spin_value_changed(P, n) == FloatParameterWidget_setter(P, Number(n, "literal"))

\* FloatParameterWidget(slider_min=.., slider_max=..): value = float(0)
FloatParameterWidget(slider_min, slider_max) ==
    FloatParameterWidget_setter(
        [Property("FloatParameter", <<>>,
                  QSlider(slider_min * SliderScale, slider_max * SliderScale),
                  slider_min, slider_max) EXCEPT !.spin = PARM_MIN * Unit],
        Number(0, "literal"))

-----------------------------------------------------------------------------
(* The program state as one record, and the record of an operation *)

St == [tabs |-> tabs, egroups |-> egroups, groups |-> groups, widgets |-> widgets,
       defaults |-> defaults,
       err |-> "none", emits |-> <<>>, delivered |-> <<>>, edlog |-> <<>>]

Empty == [tabs |-> <<>>, egroups |-> <<>>, groups |-> <<>>, widgets |-> <<>>,
          defaults |-> PropertyWidget_defaults,
          err |-> "none", emits |-> <<>>, delivered |-> <<>>, edlog |-> <<>>]

NoOp == [kind |-> "init", w |-> 0, g |-> 0, v |-> NoneV, m |-> <<>>, line |-> 0,
         name |-> NONE, tab |-> NONE, group |-> NONE, box |-> NONE, wkind |-> "",
         link |-> 0, err |-> "none", emits |-> <<>>, delivered |-> <<>>,
         edlog |-> <<>>, calls |-> <<>>,
         n |-> 0, add |-> FALSE, ok |-> TRUE, before |-> 0, exponent |-> 0,
         again |-> FALSE, text |-> <<>>]

Commit(R0, o) ==
    \E R \in {R0} :
        /\ tabs' = R.tabs
        /\ egroups' = R.egroups
        /\ groups' = R.groups
        /\ widgets' = R.widgets
        /\ defaults' = R.defaults
        /\ lineEdit' = lineEdit
        /\ UNCHANGED <<vec, labelled, prop>>
        /\ op' = [o EXCEPT !.err = R.err, !.emits = R.emits,
                           !.delivered = R.delivered, !.edlog = R.edlog]

-----------------------------------------------------------------------------
(* Operations on the values of a built editor *)

WIds == 1..Len(widgets)
GIds == 1..Len(groups)

\* widget.value = v, from outside the widget
ExtAssign(wid, v) ==
    Commit(value_set(St, wid, v), [NoOp EXCEPT !.kind = "ExtAssign", !.w = wid, !.v = v])

\* the line's part of a user edit: the text becomes n and editingFinished
\* runs strip_padding
user_line(w, i, n) == strip_padding([(IF i = 1 THEN w.line1 ELSE w.line2) EXCEPT !.value = n])

\* the user types number n into line i of an enabled Int or Int2 widget and
\* finishes editing; the line's valueChanged runs the widget's line_value_changed
UserEditLine(wid, i, n) ==
    /\ widgets[wid].enabled
    /\ \/ widgets[wid].kind = "Int" /\ i = 1
       \/ widgets[wid].kind = "Int2"
    /\ \E r \in {user_line(widgets[wid], i, n)} :
       \E S1 \in {IF i = 1 THEN [St EXCEPT !.widgets[wid].line1 = r.line]
                           ELSE [St EXCEPT !.widgets[wid].line2 = r.line]} :
          Commit(IF ~r.emitted THEN S1
                 ELSE IF widgets[wid].kind = "Int"
                      THEN IntProperty_line_value_changed(S1, wid, n)
                      ELSE Int2Property_line_value_changed(S1, wid),
                 [NoOp EXCEPT !.kind = "UserEditLine", !.w = wid, !.line = i,
                              !.v = IntV(n)])

\* the user drags the slider of an enabled Int widget to another position
UserMoveSlider(wid, p) ==
    /\ widgets[wid].enabled
    /\ widgets[wid].kind = "Int"
    /\ widgets[wid].slider_min <= p /\ p <= widgets[wid].slider_max
    /\ p # widgets[wid].slider
    /\ Commit(IntProperty_slider_value_changed([St EXCEPT !.widgets[wid].slider = p], wid, p),
              [NoOp EXCEPT !.kind = "UserMoveSlider", !.w = wid, !.v = IntV(p)])

\* the user edits the text of an enabled Str widget: textChanged is valueChanged
UserEditText(wid, k) ==
    /\ widgets[wid].enabled
    /\ widgets[wid].kind = "Str"
    /\ k # widgets[wid].text
    /\ Commit(valueChanged_emit([St EXCEPT !.widgets[wid].text = k], wid, StrV(k), "control"),
              [NoOp EXCEPT !.kind = "UserEditText", !.w = wid, !.v = StrV(k)])

\* the user clicks the override checkbox of a row
ToggleOverride(wid) ==
    /\ widgets[wid].checkbox # "none"
    /\ Commit(override_changed(
                  [St EXCEPT !.widgets[wid].checkbox =
                      IF @ = "checked" THEN "unchecked" ELSE "checked"],
                  widgets[wid].parent, wid),
              [NoOp EXCEPT !.kind = "ToggleOverride", !.w = wid])

\* the values written under a widget name: values of the widget's own type
\* and one value of another type
Options(name) ==
    CASE name = "p" -> {Int2V(MaxVal, 0), Int2V(0, MaxVal), IntV(0)}
      [] name = "i" -> {IntV(0), IntV(MaxVal), StrV(0)}
      [] name = "s" -> {StrV(1), IntV(0)}
      [] OTHER -> {IntV(0)}

MapsOver(D) == {m \in [D -> Values] : \A d \in D : m[d] \in Options(d)}

\* the mappings written to PropertyGroup.values; "zz" names no widget
GroupMaps ==
    UNION {MapsOver(D) : D \in {{"p"}, {"i", "s"}, {"s", "zz"}}}

\* group.values = m
GroupWrite(g, m) ==
    Commit(PropertyGroup_values_set(St, g, m), [NoOp EXCEPT !.kind = "GroupWrite", !.g = g, !.m = m])

Absent == [present |-> FALSE, m |-> <<>>]
Present(M) == {[present |-> TRUE, m |-> m] : m \in M}

\* {tab: {group: mapping}} with the groups "a", "b" of the untabbed scope and
\* "c" of tab "t"; with u also a tab and a group that do not exist
EditorMap(ma, mb, mc, u) ==
    (IF ma.present \/ mb.present \/ u
     THEN NONE :> ((IF ma.present THEN "a" :> ma.m ELSE <<>>)
                   @@ (IF mb.present THEN "b" :> mb.m ELSE <<>>)
                   @@ (IF u THEN "zz" :> ("p" :> Int2V(0, 0)) ELSE <<>>))
     ELSE <<>>)
    @@ (IF mc.present THEN "t" :> ("c" :> mc.m) ELSE <<>>)
    @@ (IF u THEN "u" :> ("a" :> ("p" :> Int2V(MaxVal, MaxVal))) ELSE <<>>)

EditorMaps ==
    {EditorMap(ma, mb, mc, FALSE) :
        ma \in {Absent} \cup Present([{"p"} -> {Int2V(MaxVal, 0), Int2V(0, 0)}]),
        mb \in {Absent} \cup Present([{"p"} -> {Int2V(0, MaxVal)}]),
        mc \in {Absent} \cup Present({"s" :> StrV(0),
                                      ("i" :> IntV(MaxVal)) @@ ("s" :> StrV(1)),
                                      ("i" :> StrV(0)) @@ ("s" :> StrV(1))})}
    \cup {EditorMap(Absent, Absent, Absent, TRUE),
          EditorMap([present |-> TRUE, m |-> "p" :> Int2V(0, 0)], Absent,
                    [present |-> TRUE, m |-> "s" :> StrV(0)], TRUE)}

\* editor.values = v
EditorWrite(v) ==
    Commit(PropertyEditor_values_set(St, v), [NoOp EXCEPT !.kind = "EditorWrite", !.m = v])

-----------------------------------------------------------------------------
(* The editor the value operations run on:                                 *)
(*   editor.add_property(Int2Property('p'), group='a')                     *)
(*   editor.create_property_group('b', link=editor.groups[None]['a'])      *)
(*   editor.add_property(IntProperty('i'), group='c', tab='t')             *)
(*   editor.add_property(StringProperty('s'), group='c', tab='t')          *)

\* editor.add_property(Kind(name), group, tab, box)
NewProperty(S0, kind, name, group, tab, box) ==
    Let(PropertyWidget_init(S0, kind, name), LAMBDA S1 :
        PropertyEditor_add_property(S1, Len(S1.widgets), group, tab, box))

Built ==
    NewProperty(
        NewProperty(
            create_property_group(
                NewProperty(Empty, "Int2", "p", "a", NONE, NONE), "b", NONE, 1),
            "Int", "i", "c", "t", NONE),
        "Str", "s", "c", "t", NONE)

Init ==
    \E B \in {Built} :
        /\ tabs = B.tabs
        /\ egroups = B.egroups
        /\ groups = B.groups
        /\ widgets = B.widgets
        /\ defaults = B.defaults
        /\ lineEdit = LineEdit(FALSE, -MAX_INT, MAX_INT, 0)
        /\ vec = NoVec
        /\ labelled = NoLabel
        /\ prop = NoProp
        /\ op = [NoOp EXCEPT !.err = B.err]

\* the values assigned to a widget: every value of its own type and one of
\* another type
AssignValues(kind) ==
    CASE kind = "Int" -> IntValues \cup {StrV(1)}
      [] kind = "Int2" -> Int2Values \cup {IntV(MaxVal)}
      [] kind = "Str" -> StrValues \cup {Int2V(0, MaxVal)}

\* assignments, user edits and override toggles
Next ==
    \/ \E wid \in WIds : \E v \in AssignValues(widgets[wid].kind) : ExtAssign(wid, v)
    \/ \E wid \in WIds, i \in 1..2, n \in TestInts : UserEditLine(wid, i, n)
    \/ \E wid \in WIds, p \in TestInts : UserMoveSlider(wid, p)
    \/ \E wid \in WIds, k \in TestStrs : UserEditText(wid, k)
    \/ \E wid \in WIds : ToggleOverride(wid)

Spec == Init /\ [][Next]_vars

\* writes of value mappings and override toggles
NextWrite ==
    \/ \E g \in GIds, m \in GroupMaps : GroupWrite(g, m)
    \/ \E v \in EditorMaps : EditorWrite(v)
    \/ \E wid \in WIds : ToggleOverride(wid)

SpecWrite == Init /\ [][NextWrite]_vars

-----------------------------------------------------------------------------
(* Building an editor from the empty one *)

TabNames == {NONE, "t", "u"}
GroupNames == {"g", "h"}
WidgetNames == {"x", "y"}
\* IntProperty('x'), StringProperty('y')
KindOf(name) == IF name = "x" THEN "Int" ELSE "Str"
Boxes == {NONE, "b"}

\* PropertyEditor.__init__
InitBuild ==
    /\ tabs = <<>>
    /\ egroups = <<>>
    /\ groups = <<>>
    /\ widgets = <<>>
    /\ defaults = PropertyWidget_defaults
    /\ lineEdit = LineEdit(FALSE, -MAX_INT, MAX_INT, 0)
    /\ vec = NoVec
    /\ labelled = NoLabel
    /\ prop = NoProp
    /\ op = NoOp

\* editor.create_tab(name)
CreateTab(name) ==
    Commit(create_tab(St, name), [NoOp EXCEPT !.kind = "CreateTab", !.name = name])

\* editor.create_property_group(name, tab, link=link); link is 0 for None
\* or a group constructed before
CreatePropertyGroup(name, tab, link) ==
    /\ \/ HasGroup(St, tab, name)
       \/ /\ Len(groups) < MaxGroups
          /\ Len(widgets) + (IF link = 0 THEN 0 ELSE Len(groups[link].widgets)) <= MaxWidgets
    /\ Commit(create_property_group(St, name, tab, link),
              [NoOp EXCEPT !.kind = "CreatePropertyGroup", !.group = name, !.tab = tab,
                           !.link = link])

\* editor.add_property(Kind(name), group=group, tab=tab, box=box)
AddProperty(kind, name, group, tab, box) ==
    /\ Len(widgets) < MaxWidgets
    /\ HasGroup(St, tab, group) \/ Len(groups) < MaxGroups
    /\ Commit(NewProperty(St, kind, name, group, tab, box),
              [NoOp EXCEPT !.kind = "AddProperty", !.w = Len(widgets) + 1, !.wkind = kind,
                           !.name = name, !.group = group, !.tab = tab, !.box = box])

\* group.add_property(Kind(name), box=box) on a group of the editor
GroupAddProperty(g, kind, name, box) ==
    /\ Len(widgets) < MaxWidgets
    /\ Commit(Let(PropertyWidget_init(St, kind, name), LAMBDA S1 :
                  PropertyGroup_add_property(S1, g, Len(S1.widgets), NoLink, box)),
              [NoOp EXCEPT !.kind = "GroupAddProperty", !.g = g, !.w = Len(widgets) + 1,
                           !.wkind = kind, !.name = name, !.box = box])

NextBuild ==
    \/ \E name \in {NONE, "t"} : CreateTab(name)
    \/ \E name \in GroupNames, tab \in TabNames, link \in {0} \cup GIds :
          CreatePropertyGroup(name, tab, link)
    \/ \E name \in WidgetNames, group \in GroupNames, tab \in {NONE, "t"}, box \in Boxes :
          AddProperty(KindOf(name), name, group, tab, box)
    \/ \E g \in GIds, name \in WidgetNames, box \in Boxes :
          GroupAddProperty(g, KindOf(name), name, box)

SpecBuild == InitBuild /\ [][NextBuild]_vars

-----------------------------------------------------------------------------
(* Cloning widgets and linking groups, outside an editor *)

MaxCloneWidgets == 3   \* widgets constructed or cloned
MaxCloneGroups == 3    \* groups constructed

\* Int2Property('p'), IntProperty('x')
CloneNames == {"p", "x"}
CloneKind(name) == IF name = "p" THEN "Int2" ELSE KindOf(name)

\* the **kwargs given to from_widget
CloneOverrides ==
    {<<>>, "label" :> StrOpt("L"), "line_max" :> ValOpt(IntV(MaxVal)), "name" :> StrOpt("q")}

\* w = Kind(name)
NewWidget(kind, name) ==
    /\ Len(widgets) < MaxCloneWidgets
    /\ Commit(PropertyWidget_init(St, kind, name),
              [NoOp EXCEPT !.kind = "NewWidget", !.w = Len(widgets) + 1, !.wkind = kind,
                           !.name = name])

\* cls.from_widget(src, **kw)
FromWidget(cls, src, kw) ==
    /\ Len(widgets) < MaxCloneWidgets
    /\ Commit(PropertyWidget_from_widget(St, cls, src, kw),
              [NoOp EXCEPT !.kind = "FromWidget", !.w = src, !.wkind = cls, !.m = kw])

\* PropertyGroup(link=G); link = 0 is PropertyGroup()
NewGroup(link) ==
    /\ Len(groups) < MaxCloneGroups
    /\ Len(widgets) + (IF link = 0 THEN 0 ELSE Len(groups[link].widgets)) <= MaxCloneWidgets
    /\ Commit(PropertyGroup_init(St, link),
              [NoOp EXCEPT !.kind = "NewGroup", !.g = Len(groups) + 1, !.link = link])

\* group.add_property(w) with a widget that is in no group yet
GroupAdd(g, wid) ==
    /\ widgets[wid].parent = 0
    /\ Commit(PropertyGroup_add_property(St, g, wid, NoLink, NONE),
              [NoOp EXCEPT !.kind = "GroupAdd", !.g = g, !.w = wid])

NextClone ==
    \/ \E name \in CloneNames : NewWidget(CloneKind(name), name)
    \/ \E cls \in {"Int", "Int2"}, src \in WIds, kw \in CloneOverrides : FromWidget(cls, src, kw)
    \/ \E link \in {0} \cup GIds : NewGroup(link)
    \/ \E g \in GIds, wid \in WIds : GroupAdd(g, wid)

SpecClone == InitBuild /\ [][NextClone]_vars

-----------------------------------------------------------------------------
(* A numeric editor on its own, driven by the program and by the user *)

\* the characters the user types
TypedChars == {"0", "9", "-", "+", "."}

\* IntLineEdit(), IntProperty's line with line_min = 0 and line_max = 10,
\* FloatProperty's line with decimals = MaxDecimals, and one with
\* decimals = 1, line_min = -1 and line_max = 1
Editors ==
    {LineEdit(FALSE, -MAX_INT, MAX_INT, 0), LineEdit(FALSE, 0, 10, 0),
     LineEdit(TRUE, -MAX_INT, MAX_INT, MaxDecimals), LineEdit(TRUE, -1, 1, 1)}

\* the values given to setValue: whole numbers for the integer editor; for
\* the float editor also quarters, a twentieth and a hundredth, inside and
\* outside [-1, 1]
SetValues(L) ==
    IF L.float
    THEN {-2 * Unit, -(Unit \div 4), 0, 1, Unit \div 20, Unit \div 4, Unit, 2 * Unit}
    ELSE {k * Unit : k \in {-MaxNum, -10, -1, 0, 1, 9, 10, 11, MaxNum}}

\* the largest magnitude the editor is driven to
InBound(L) == Abs(L._value) <= MaxNum * Pow10(MaxDecimals - L.decimals)

Typed(t) == Len(t) <= MaxLen /\ \A i \in 1..Len(t) : t[i] \in TypedChars

LineCommit(R0, o) ==
    \E R \in {R0} :
        /\ lineEdit' = [R EXCEPT !.emitted = <<>>]
        /\ op' = [o EXCEPT !.emits = R.emitted]
        /\ UNCHANGED <<tabs, egroups, groups, widgets, defaults, vec, labelled, prop>>

\* line.setValue(n)
SetValue(n) ==
    \E R \in line_setValue(lineEdit, n) :
        /\ R = lineEdit \/ InBound(R)
        /\ LineCommit(R, [NoOp EXCEPT !.kind = "setValue", !.n = n])

\* Key_Up, Key_Down or the wheel: line.step(add)
Step(add) ==
    \E r \in line_step(lineEdit, add) :
        /\ ~r.ok \/ InBound(r.line)
        /\ LineCommit(r.line, [NoOp EXCEPT !.kind = "step", !.add = add, !.ok = r.ok,
                                          !.before = IF r.ok THEN text_value(lineEdit) ELSE 0,
                                          !.exponent = IF r.ok THEN exponent_of(lineEdit) ELSE 0,
                                          !.again = /\ r.ok
                                                    /\ op.kind = "step" /\ op.ok
                                                    /\ op.add # add])

\* the text without the selection, and where the cursor is then
without_selection(L) ==
    IF hasSelectedText(L)
    THEN [text |-> SubSeq(L.text, 1, L.selstart) \o SubSeq(L.text, L.selend + 1, Len(L.text)),
          cursor |-> L.selstart]
    ELSE [text |-> L.text, cursor |-> L.cursor]

\* the user's edit gave text t with the cursor at c; the QLineEdit takes it
\* unless the validator calls it Invalid
user_edit(t, c) ==
    /\ Typed(t)
    /\ validate(lineEdit, t) # "Invalid"
    /\ LineCommit([lineEdit EXCEPT !.text = t, !.cursor = c, !.selstart = 0, !.selend = 0],
                  [NoOp EXCEPT !.kind = "user"])

\* the user types the character c
UserType(c) ==
    \E b \in {without_selection(lineEdit)} :
        user_edit(SubSeq(b.text, 1, b.cursor) \o <<c>> \o SubSeq(b.text, b.cursor + 1, Len(b.text)),
                  b.cursor + 1)

\* the user presses backspace
UserBackspace ==
    \E b \in {without_selection(lineEdit)} :
        IF hasSelectedText(lineEdit) THEN user_edit(b.text, b.cursor)
        ELSE /\ b.cursor > 0
             /\ user_edit(SubSeq(b.text, 1, b.cursor - 1) \o SubSeq(b.text, b.cursor + 1, Len(b.text)),
                          b.cursor - 1)

\* the user clicks into the text
UserCursor(c) ==
    /\ c # lineEdit.cursor \/ hasSelectedText(lineEdit)
    /\ LineCommit([lineEdit EXCEPT !.cursor = c, !.selstart = 0, !.selend = 0],
                  [NoOp EXCEPT !.kind = "user"])

\* the user selects the whole text
UserSelectAll ==
    /\ lineEdit.text # <<>>
    /\ LineCommit([lineEdit EXCEPT !.cursor = Len(lineEdit.text), !.selstart = 0,
                                   !.selend = Len(lineEdit.text)],
                  [NoOp EXCEPT !.kind = "user"])

\* Return or the loss of focus: the QLineEdit emits editingFinished when the
\* text is Acceptable, or when the validator's fixup makes it so and the text
\* is replaced by the fixed one
finished_texts(L) ==
    IF validate(L, L.text) = "Acceptable" THEN {L.text}
    ELSE IF L.float /\ ~float_ok(L.text) THEN {}
    ELSE {f \in fixup(L, L.text) : validate(L, f) = "Acceptable"}

EditingFinished ==
    \E t \in finished_texts(lineEdit) :
        LineCommit(line_strip_padding([lineEdit EXCEPT !.text = t,
                                                       !.cursor = Min(@, Len(t))]),
                   [NoOp EXCEPT !.kind = "editingFinished", !.text = lineEdit.text])

\* line.strip_padding()
StripPadding ==
    LineCommit(line_strip_padding(lineEdit),
               [NoOp EXCEPT !.kind = "strip_padding", !.text = lineEdit.text])

InitLine ==
    /\ tabs = <<>>
    /\ egroups = <<>>
    /\ groups = <<>>
    /\ widgets = <<>>
    /\ defaults = PropertyWidget_defaults
    /\ lineEdit \in Editors
    /\ vec = NoVec
    /\ labelled = NoLabel
    /\ prop = NoProp
    /\ op = NoOp

NextLine ==
    \/ \E n \in SetValues(lineEdit) : SetValue(n)
    \/ \E add \in BOOLEAN : Step(add)
    \/ \E c \in TypedChars : UserType(c)
    \/ UserBackspace
    \/ \E c \in 0..Len(lineEdit.text) : UserCursor(c)
    \/ UserSelectAll
    \/ EditingFinished
    \/ StripPadding

SpecLine == InitLine /\ [][NextLine]_vars

-----------------------------------------------------------------------------
(* Vectors on their own: construction, assignment to a field, operators *)

\* the numbers a caller passes: 0, 2, 7 and 0.0, 1.9, -1.9, 4.0
VecNums ==
    {Num("int", 0), Num("int", 2 * Unit), Num("int", 7 * Unit),
     Num("float", 0), Num("float", 19 * (Unit \div 10)), Num("float", -19 * (Unit \div 10)),
     Num("float", 4 * Unit)}

\* the components of a right-hand vector: 0, 2 and 0.0, 1.9
OtherNums == {Num("int", 0), Num("int", 2 * Unit), Num("float", 0), Num("float", 19 * (Unit \div 10))}

\* the right-hand operands: a vector of the class of the left one, or a number
Others(cls) == {construct(cls, a, b).v : a, b \in OtherNums} \cup OtherNums

VecCommit(V) ==
    /\ vec' = V
    /\ UNCHANGED <<tabs, egroups, groups, widgets, defaults, lineEdit, labelled, prop, op>>

\* v = cls(a, b)
VecNew(cls, a, b) ==
    \E r \in {construct(cls, a, b)} :
        VecCommit(VecState(IF r.err = "none" THEN r.v ELSE vec.v, "new", a, b, "",
                           Num("int", 0), r.v, r.err))

\* v.x = a or v.y = a: a dataclass field is a plain attribute
VecAssign(attr, a) ==
    VecCommit(VecState([vec.v EXCEPT ![attr] = a], "assign", a, a, attr,
                       Num("int", 0), NoVector, "none"))

\* v / other and v // other
VecDiv(other, floor) ==
    \E r \in {Vector_div(vec.v, other, floor)} :
        VecCommit(VecState(vec.v, IF floor THEN "floordiv" ELSE "truediv",
                           Num("int", 0), Num("int", 0), "", other, r.v, r.err))

\* v + other, v - other, v * other
VecOp(name, other) ==
    \E r \in {Vector_op(vec.v, other, name)} :
        VecCommit(VecState(vec.v, name, Num("int", 0), Num("int", 0), "", other, r.v, r.err))

InitVec ==
    /\ tabs = <<>>
    /\ egroups = <<>>
    /\ groups = <<>>
    /\ widgets = <<>>
    /\ defaults = PropertyWidget_defaults
    /\ lineEdit = LineEdit(FALSE, -MAX_INT, MAX_INT, 0)
    /\ vec = NoVec
    /\ labelled = NoLabel
    /\ prop = NoProp
    /\ op = NoOp

NextVec ==
    \/ \E cls \in {"Int2", "Float2"}, a, b \in VecNums : VecNew(cls, a, b)
    \/ \E attr \in {"x", "y"}, a \in VecNums : VecAssign(attr, a)
    \/ \E other \in Others(vec.v.cls), floor \in BOOLEAN : VecDiv(other, floor)
    \/ \E other \in Others(vec.v.cls), name \in {"add", "sub", "mul"} : VecOp(name, other)

SpecVec == InitVec /\ [][NextVec]_vars

-----------------------------------------------------------------------------
(* The label of a widget, from a name given as a text *)

NameChars == {"a", "b", "A", "1", "_"}

\* the names of at most MaxNameLen characters
RECURSIVE Names_(_)
Names_(k) ==
    IF k = 0 THEN {<<>>}
    ELSE Names_(k - 1) \cup {Append(t, c) : t \in Names_(k - 1), c \in NameChars}

\* the label option: not passed, or passed as written
GivenLabels == {NoText, Text(<<"a", "_", "B">>), Text(<<>>)}

\* Kind(name, label=...) or Kind(name): PropertyWidget.__init__ up to init_kwargs
LabelNew ==
    /\ ~labelled.built
    /\ labelled' = [labelled EXCEPT !.label = init_label(labelled.name, labelled.given),
                                    !.built = TRUE]
    /\ UNCHANGED <<tabs, egroups, groups, widgets, defaults, lineEdit, vec, prop, op>>

InitLabel ==
    /\ tabs = <<>>
    /\ egroups = <<>>
    /\ groups = <<>>
    /\ widgets = <<>>
    /\ defaults = PropertyWidget_defaults
    /\ lineEdit = LineEdit(FALSE, -MAX_INT, MAX_INT, 0)
    /\ vec = NoVec
    /\ labelled \in {Unlabelled(name, given) : name \in Names_(MaxNameLen), given \in GivenLabels}
    /\ prop = NoProp
    /\ op = NoOp

NextLabel == LabelNew

SpecLabel == InitLabel /\ [][NextLabel]_vars

-----------------------------------------------------------------------------
(* A property on its own: the widget is assigned values, the user moves    *)
(* its slider, commits texts in its editors and steps them, and picks in   *)
(* its dialog.                                                             *)

\* IntProperty('x', line_min=0, line_max=NarrowLineMax): an editor range
\* inside the slider range
NarrowLineMax == 5

\* the values assigned to an IntProperty: inside and outside the slider range
IntAssigned == {Number(k * Unit, "literal") : k \in {-1, 0, 3, 10, 11}}

\* the values assigned to a FloatProperty
FloatAssigned ==
    {Number(n, "literal") : n \in {-Unit, 0, Unit \div 4, 29 * (Unit \div 10), 10 * Unit, 11 * Unit}}

\* the colours assigned and picked
Colors == {QColor(0, 0, 0), QColor(MaxChannel, 32768, 0), QColor(MaxChannel, MaxChannel, MaxChannel)}

\* the paths assigned and picked
Paths == {"", "a", "b"}

\* the texts a user commits in an editor
LineTexts == {<<"5">>, <<"1", "1">>, <<"-", "1">>, <<"0", ".", "5">>, <<"2", ".", "9">>, <<"1">>}

PropCommit(P, o) ==
    /\ prop' = [P EXCEPT !.emitted = <<>>, !.calls = <<>>]
    /\ op' = [o EXCEPT !.emits = P.emitted, !.calls = P.calls]
    /\ UNCHANGED <<tabs, egroups, groups, widgets, defaults, lineEdit, vec, labelled>>

\* widget.value = v
PropAssign ==
    \/ /\ prop.kind \in {"Int", "Float"}
       /\ \E v \in (IF prop.kind = "Int" THEN IntAssigned ELSE FloatAssigned) \cup {prop._value} :
              \E Q \in IntProperty_setter(prop, v) :
                  PropCommit(Q, [NoOp EXCEPT !.kind = "assign", !.v = v,
                                            !.again = v = prop._value])
    \/ /\ prop.kind = "Color"
       /\ \E color \in Colors :
              \E Q \in ColorProperty_setter(prop, color) :
                  PropCommit(Q, [NoOp EXCEPT !.kind = "assign", !.v = color])
    \/ /\ prop.kind = "Path"
       /\ \E path \in Paths :
              \E Q \in PathProperty_setter(prop, path) :
                  PropCommit(Q, [NoOp EXCEPT !.kind = "assign", !.v = path])

\* the user drags the slider to another position
PropSlider ==
    /\ prop.kind \in {"Int", "Float"}
    /\ \E position \in prop.slider.minimum..prop.slider.maximum :
           /\ position # prop.slider.value
           /\ \E Q \in deliver_slider([prop EXCEPT !.slider = QSlider_setSliderPosition(@, position)]) :
                  PropCommit(Q, [NoOp EXCEPT !.kind = "slider", !.n = position])

\* the user types a text in editor i and presses return
PropLine ==
    \E i \in 1..Len(prop.lines) :
        \E t \in LineTexts :
            /\ validate(prop.lines[i], t) # "Invalid"
            /\ \E u \in finished_texts([prop.lines[i] EXCEPT !.text = t]) :
                   \E L \in {line_strip_padding([prop.lines[i] EXCEPT !.text = u, !.cursor = Len(u),
                                                                       !.selstart = 0, !.selend = 0])} :
                       \E Q \in deliver_line([prop EXCEPT !.lines[i] = L], i) :
                           PropCommit(Q, [NoOp EXCEPT !.kind = "line", !.line = i, !.text = t])

\* the user steps editor i with a key or the wheel
PropStep ==
    \E i \in 1..Len(prop.lines) :
        \E add \in BOOLEAN :
            \E r \in line_step(prop.lines[i], add) :
                /\ r.ok /\ InBound(r.line)
                /\ \E Q \in deliver_line([prop EXCEPT !.lines[i] = r.line], i) :
                       PropCommit(Q, [NoOp EXCEPT !.kind = "step", !.line = i, !.add = add])

\* the user clicks the button; the dialog returns a result
PropPick ==
    \/ /\ prop.kind = "Color"
       /\ \E color \in Colors \cup {InvalidColor} :
              \E Q \in select_color(prop, color) :
                  PropCommit(Q, [NoOp EXCEPT !.kind = "pick", !.v = color,
                                            !.before = IF prop.color = color THEN 1 ELSE 0])
    \/ /\ prop.kind = "Path"
       /\ \E path \in Paths :
              \E Q \in browse(prop, path) :
                  PropCommit(Q, [NoOp EXCEPT !.kind = "pick", !.v = path,
                                            !.before = IF prop.text = path THEN 1 ELSE 0])

InitProp ==
    /\ tabs = <<>> /\ egroups = <<>> /\ groups = <<>> /\ widgets = <<>>
    /\ defaults = PropertyWidget_defaults
    /\ lineEdit = LineEdit(FALSE, -MAX_INT, MAX_INT, 0)
    /\ vec = NoVec /\ labelled = NoLabel
    /\ prop \in IntProperty(SliderMinDefault, SliderMaxDefault, -MAX_INT, MAX_INT)
                \cup IntProperty(SliderMinDefault, SliderMaxDefault, 0, NarrowLineMax)
                \cup FloatProperty(SliderMinDefault, SliderMaxDefault)
                \cup ColorProperty \cup PathProperty
    /\ op = NoOp

NextProp == PropAssign \/ PropSlider \/ PropLine \/ PropStep \/ PropPick

SpecProp == InitProp /\ [][NextProp]_vars

-----------------------------------------------------------------------------
(* The earlier FloatParameterWidget on its own: the user moves its slider  *)
(* and edits its spin box, and the widget is assigned values.              *)

\* the slider ranges the widget is constructed with
ParameterRanges == {<<0, 1>>, <<1, 2>>}

\* the values assigned and typed into the spin box: binary fractions, and
\* 0.29 below slider_max = 1
ParameterValues == {0, Unit \div 4, 29 * (Unit \div 100), Unit, 3 * (Unit \div 2), 3 * Unit}

\* the user drags the slider to another position
ParamSlider ==
    \E position \in prop.slider.minimum..prop.slider.maximum :
        /\ position # prop.slider.value
        /\ \E Q \in FloatParameterWidget_slider_value_changed(
                        [prop EXCEPT !.slider.value = position], position) :
               PropCommit(Q, [NoOp EXCEPT !.kind = "slider", !.n = position])

\* the user changes the value of the spin box
ParamSpin ==
    \E n \in ParameterValues :
        /\ n # prop.spin
        /\ \E Q \in spin_value_changed([prop EXCEPT !.spin = n], n) :
               PropCommit(Q, [NoOp EXCEPT !.kind = "spin", !.v = Number(n, "literal")])

\* widget.value = v
ParamAssign ==
    \E n \in ParameterValues :
        \E Q \in FloatParameterWidget_setter(prop, Number(n, "literal")) :
            PropCommit(Q, [NoOp EXCEPT !.kind = "assign", !.v = Number(n, "literal")])

InitParam ==
    /\ tabs = <<>> /\ egroups = <<>> /\ groups = <<>> /\ widgets = <<>>
    /\ defaults = PropertyWidget_defaults
    /\ lineEdit = LineEdit(FALSE, -MAX_INT, MAX_INT, 0)
    /\ vec = NoVec /\ labelled = NoLabel
    /\ prop \in UNION {FloatParameterWidget(r[1], r[2]) : r \in ParameterRanges}
    /\ op = NoOp

NextParam == ParamSlider \/ ParamSpin \/ ParamAssign

SpecParam == InitParam /\ [][NextParam]_vars

-----------------------------------------------------------------------------
(* Properties *)

ValueOps == {"ExtAssign", "UserEditLine", "UserMoveSlider", "UserEditText"}
WriteOps == {"GroupWrite", "EditorWrite"}

\* the program state after the step
StNext == [tabs |-> tabs', egroups |-> egroups', groups |-> groups', widgets |-> widgets',
           defaults |-> defaults',
           err |-> "none", emits |-> <<>>, delivered |-> <<>>, edlog |-> <<>>]

\* the emissions of widget wid's valueChanged during operation o
OwnEmits(o, wid) == SelectSeq(o.emits, LAMBDA e : e.w = wid)

\* the widgets that mirror a widget of a linked group, and those of them
\* that are not overridden
Mirrors(ws) == {m \in 1..Len(ws) : ws[m].link.ty = "widget"}
Following(ws) == {m \in Mirrors(ws) : ws[m].checkbox = "unchecked"}

\* the number of connections of slot to widget src's valueChanged
Subscriptions(ws, src, slot) == Cardinality({i \in 1..Len(ws[src].conns) : ws[src].conns[i] = slot})

\* C1: an external assignment widget.value = v of an accepted value emits the
\* widget's valueChanged exactly once, and no emission comes from the push of
\* v into the widget's own sub-controls.
C1_ExactlyOneEmission ==
    (op.kind = "ExtAssign" /\ op.err = "none")
        => /\ Len(OwnEmits(op, op.w)) = 1
           /\ \A k \in 1..Len(op.emits) :
                 op.emits[k].w = op.w => op.emits[k].via = "setter"

\* C2: while a mirror B.x is not overridden, every value change emitted by
\* its source A.x sets B.x.value to the emitted value, and B.x's label and
\* control stay disabled.
C2_MirrorFollowsSource ==
    op.kind \in ValueOps =>
        \A m \in Following(widgets) :
            LET src == widgets[m].link.w
                em == OwnEmits(op, src)
                dl == SelectSeq(op.delivered, LAMBDA d : d.dst = m)
            IN  /\ Len(dl) = Len(em)
                /\ \A k \in 1..Len(em) :
                      /\ dl[k].src = src
                      /\ dl[k].v = em[k].v
                      /\ dl[k].after = em[k].v
                /\ (em # <<>> => value(widgets[m]) = em[Len(em)].v)
                /\ ~widgets[m].enabled
                /\ ~widgets[m].label_enabled

\* the source of a following mirror was assigned a value that changes both of
\* its lines, and the mirror received each of the emitted values
C2_Witness ==
    /\ op.kind = "ExtAssign"
    /\ op.err = "none"
    /\ \E m \in Following(widgets) :
          /\ widgets[m].link.w = op.w
          /\ Len(SelectSeq(op.delivered, LAMBDA d : d.dst = m)) >= 2
          /\ value(widgets[m]) = op.v
          /\ op.v = Int2V(MaxVal, MaxVal)

\* C3: once the override checkbox of a mirror B.x is checked, the row is
\* enabled and value changes of A.x leave B.x.value unchanged; when it is
\* unchecked again B.x.value becomes A.x's current value at once, the row is
\* disabled, and changes of A.x are tracked again.
C3_Override ==
    [][\A m \in Mirrors(widgets) :
        LET src == widgets[m].link.w IN
        /\ (op'.kind = "ToggleOverride" /\ op'.w = m /\ widgets'[m].checkbox = "checked")
              => /\ widgets'[m].enabled /\ widgets'[m].label_enabled
                 /\ value(widgets'[m]) = value(widgets[m])
        /\ (op'.kind \in ValueOps /\ op'.w = src /\ widgets[m].checkbox = "checked")
              => /\ value(widgets'[m]) = value(widgets[m])
                 /\ widgets'[m].enabled /\ widgets'[m].label_enabled
        /\ (op'.kind = "ToggleOverride" /\ op'.w = m /\ widgets'[m].checkbox = "unchecked")
              => /\ value(widgets'[m]) = value(widgets'[src])
                 /\ ~widgets'[m].enabled /\ ~widgets'[m].label_enabled
        /\ (op'.kind \in ValueOps /\ op'.w = src /\ widgets[m].checkbox = "unchecked"
               /\ OwnEmits(op', src) # <<>>)
              => /\ value(widgets'[m]) = value(widgets'[src])
                 /\ ~widgets'[m].enabled /\ ~widgets'[m].label_enabled
      ]_vars

\* the source of an overridden mirror was assigned a value and the mirror
\* kept another one
C3_Witness ==
    /\ op.kind = "ExtAssign"
    /\ op.err = "none"
    /\ \E m \in Mirrors(widgets) :
          /\ widgets[m].link.w = op.w
          /\ widgets[m].checkbox = "checked"
          /\ widgets[m].enabled
          /\ value(widgets[m]) # value(widgets[op.w])

\* C4: after the construction of a linked group and after any sequence of
\* override toggles, the source widget's valueChanged has exactly 1
\* subscription of the mirror's setter when the mirror is not overridden and
\* exactly 0 when it is; a disconnect without a subscription (a RuntimeError)
\* is never attempted.
C4_OneSubscription ==
    /\ op.err # "RuntimeError"
    /\ \A m \in Mirrors(widgets) :
          Subscriptions(widgets, widgets[m].link.w, SetValueSlot(m))
              = IF widgets[m].checkbox = "unchecked" THEN 1 ELSE 0

\* a mirror's override was just switched off again: it is subscribed once
C4_Witness ==
    /\ op.kind = "ToggleOverride"
    /\ op.w \in Mirrors(widgets)
    /\ widgets[op.w].checkbox = "unchecked"
    /\ Subscriptions(widgets, widgets[op.w].link.w, SetValueSlot(op.w)) = 1

\* the editor-level values_changed emissions that the group holding widget
\* wid causes during operation o
GroupEmissions(o, wid) ==
    SelectSeq(o.edlog, LAMBDA e :
        \E k \in 1..Len(groups[widgets[wid].parent].listeners) :
            /\ e.group = groups[widgets[wid].parent].listeners[k].name
            /\ e.tab = groups[widgets[wid].parent].listeners[k].tab)

\* a payload with an entry for every tab, group and widget of the editor
WholeTree(payload) ==
    /\ Len(payload) = Len(egroups)
    /\ \A i \in 1..Len(payload) :
          /\ payload[i].tab = egroups[i].tab
          /\ Len(payload[i].groups) = Len(egroups[i].groups)
          /\ \A j \in 1..Len(payload[i].groups) :
                /\ payload[i].groups[j].name = egroups[i].groups[j].name
                /\ Len(payload[i].groups[j].values)
                      = Len(groups[egroups[i].groups[j].gid].widgets)

\* C5: each change of the value of a widget held by a group of the editor, by
\* a user edit of a sub-control or by external assignment, results in exactly
\* one editor-level values_changed emission, whose payload is the editor's
\* entire value tree.
C5_OneEditorEmission ==
    [][(/\ op'.kind \in ValueOps
        /\ op'.err = "none"
        /\ value(widgets'[op'.w]) # value(widgets[op'.w]))
          => /\ Len(GroupEmissions(op', op'.w)) = 1
             /\ \A k \in 1..Len(op'.edlog) : WholeTree(op'.edlog[k].payload)
      ]_vars

\* the (widget, value) assignments that a write of a mapping asks for
GroupEntries(g, m) ==
    {[w |-> groups[g].widgets[i], v |-> m[widgets[groups[g].widgets[i]].name]] :
        i \in {i \in 1..Len(groups[g].widgets) : widgets[groups[g].widgets[i]].name \in DOMAIN m}}

EditorEntries(v) ==
    UNION {GroupEntries(egroups[i].groups[j].gid, v[egroups[i].tab][egroups[i].groups[j].name]) :
        <<i, j>> \in {ij \in (1..Len(egroups)) \X (1..MaxGroups + 1) :
            /\ ij[2] <= Len(egroups[ij[1]].groups)
            /\ egroups[ij[1]].tab \in DOMAIN v
            /\ egroups[ij[1]].groups[ij[2]].name \in DOMAIN v[egroups[ij[1]].tab]}}

Entries(o) == IF o.kind = "GroupWrite" THEN GroupEntries(o.g, o.m) ELSE EditorEntries(o.m)

\* the entries the written object holds: a group's widgets, or all widgets of the editor
Scope(o) ==
    IF o.kind = "GroupWrite" THEN {groups[o.g].widgets[i] : i \in 1..Len(groups[o.g].widgets)}
    ELSE 1..Len(widgets)

TypeCorrect(o) == \A e \in Entries(o) : e.v.ty = accepted_type(widgets[e.w].kind)

C7_LazyCreation ==
    [][(/\ op'.kind = "AddProperty"
        /\ op'.box = NONE
        /\ HasGroup(St, op'.tab, op'.group)
              => op'.name \notin Names(St, GroupId(St, op'.tab, op'.group)))
          => /\ op'.err = "none"
             /\ tabs' = IF op'.tab = NONE \/ InSeq(op'.tab, tabs)
                        THEN tabs ELSE Append(tabs, op'.tab)
             /\ HasGroup(StNext, op'.tab, op'.group)
             /\ IF HasGroup(St, op'.tab, op'.group)
                THEN /\ Len(groups') = Len(groups)
                     /\ GroupId(StNext, op'.tab, op'.group) = GroupId(St, op'.tab, op'.group)
                     /\ groups'[GroupId(St, op'.tab, op'.group)].widgets
                           = Append(groups[GroupId(St, op'.tab, op'.group)].widgets, op'.w)
                ELSE /\ Len(groups') = Len(groups) + 1
                     /\ groups'[GroupId(StNext, op'.tab, op'.group)].widgets = <<op'.w>>
      ]_vars

\* C8: editor.add_property(widget, group, tab, box=b) with a box name b
\* places the widget inside the sub-box b of the target group, which is
\* registered in the group's boxes on first use; the widget's row is left
\* enabled, without an override checkbox and without a link on the widget.
C8_BoxPlacement ==
    (op.kind = "AddProperty" /\ op.box # NONE /\ op.err = "none")
        => /\ widgets[op.w].box = op.box
           /\ InSeq(op.box, groups[widgets[op.w].parent].boxes)
           /\ widgets[op.w].enabled
           /\ widgets[op.w].label_enabled
           /\ widgets[op.w].checkbox = "none"
           /\ widgets[op.w].link = NoLink

\* C9: duplicate names are rejected without side effects: create_tab with a
\* name in tabs, create_property_group with a name present in the same tab
\* scope and PropertyGroup.add_property with a widget name of the group each
\* raise and leave tabs, groups and widgets as they were; the same group
\* name under another tab is accepted.
C9_DuplicatesRejected ==
    [][/\ (op'.kind = "CreateTab" /\ InSeq(op'.name, tabs))
             => /\ op'.err = "ValueError"
                /\ UNCHANGED <<tabs, egroups, groups, widgets>>
       /\ (op'.kind = "CreatePropertyGroup" /\ HasGroup(St, op'.tab, op'.group))
             => /\ op'.err = "ValueError"
                /\ UNCHANGED <<tabs, egroups, groups, widgets>>
       /\ (op'.kind = "GroupAddProperty" /\ op'.name \in Names(St, op'.g))
             => /\ op'.err = "ValueError"
                /\ UNCHANGED <<tabs, egroups, groups>>
                /\ SubSeq(widgets', 1, Len(widgets)) = widgets
       /\ (/\ op'.kind = "CreatePropertyGroup"
           /\ op'.link = 0
           /\ ~HasGroup(St, op'.tab, op'.group)
           /\ \E t \in TabNames : HasGroup(St, t, op'.group))
             => /\ op'.err = "none"
                /\ \A t \in TabNames : HasGroup(St, t, op'.group)
                      => /\ HasGroup(StNext, t, op'.group)
                         /\ GroupId(StNext, t, op'.group) = GroupId(St, t, op'.group)
                /\ HasGroup(StNext, op'.tab, op'.group)
                /\ GroupId(StNext, op'.tab, op'.group) = Len(groups')
      ]_vars

\* a group name that exists under two tab scopes was given once more for one
\* of them and rejected
C9_Witness ==
    /\ op.kind = "CreatePropertyGroup"
    /\ op.err = "ValueError"
    /\ Cardinality({t \in TabNames : HasGroup(St, t, op.group)}) >= 2

\* C10: assigning to widget.value a value that is not an instance of the
\* widget's accepted_type raises a TypeError at the assignment, and the
\* widget's value, its sub-controls and the count of emitted valueChanged
\* events are as before.
C10_TypeErrorNoChange ==
    [][(op'.kind = "ExtAssign" /\ op'.v.ty # accepted_type(widgets[op'.w].kind))
          => /\ op'.err = "TypeError"
             /\ op'.emits = <<>>
             /\ op'.edlog = <<>>
             /\ UNCHANGED <<tabs, egroups, groups, widgets>>
      ]_vars

\* a widget holding a value other than its default was assigned a value of
\* another type
C10_Witness ==
    /\ op.kind = "ExtAssign"
    /\ op.err = "TypeError"
    /\ value(widgets[op.w]) # default(widgets[op.w].kind)

\* the name -> class map of the widgets of group g
GroupClasses(S, g) ==
    {<<S.widgets[S.groups[g].widgets[i]].name, S.widgets[S.groups[g].widgets[i]].kind>> :
        i \in 1..Len(S.groups[g].widgets)}

\* C11: cls.from_widget(source, **overrides) returns a new widget of class
\* cls whose configuration record (kwargs) is the record of the source at the
\* time of the call with the overrides on top; when the source is not an
\* instance of cls it raises a TypeError and no widget is created.
C11_FromWidget ==
    [][op'.kind = "FromWidget"
          => IF widgets[op'.w].kind = op'.wkind
             THEN /\ op'.err = "none"
                  /\ Len(widgets') = Len(widgets) + 1
                  /\ widgets'[Len(widgets')].kind = op'.wkind
                  /\ widgets'[Len(widgets')].kwargs = update(widgets[op'.w].kwargs, op'.m)
             ELSE /\ op'.err = "TypeError"
                  /\ Len(widgets') = Len(widgets)
      ]_vars

\* C12: for any existing group G, also one that is already the link of another
\* group, PropertyGroup(link=G) succeeds and yields a group with the widget
\* names of G, each mirror of the class of its source; a widget added later to
\* one group does not appear in any other.
C12_LinkedGroup ==
    [][/\ (op'.kind = "NewGroup" /\ op'.link # 0)
            => /\ op'.err = "none"
               /\ GroupClasses(StNext, Len(groups')) = GroupClasses(St, op'.link)
       /\ op'.kind = "GroupAdd"
            => \A g \in GIds \ {op'.g} : groups'[g].widgets = groups[g].widgets
      ]_vars

\* C13: in the integer editor, for every whole number v with
\* minimum <= v <= maximum, after setValue(v) the value read back is v and the
\* cached value is v; in the float editor the value read back is v rounded
\* to the configured number of decimals.
C13_SetValueReadBack ==
    [][(op'.kind = "setValue" /\ in_range(op'.n, lineEdit.bottom, lineEdit.top))
          => IF lineEdit.float
             THEN text_value(lineEdit') \in round(op'.n, lineEdit.decimals)
             ELSE /\ text_value(lineEdit') = op'.n
                  /\ lineEdit'._value = op'.n
                  /\ ~lineEdit'.inexact
      ]_vars

\* a float editor was given a value with more decimals than it is configured
\* for and reads back the rounded value
C13_Witness ==
    /\ op.kind = "setValue"
    /\ lineEdit.float
    /\ op.n \notin round(op.n, lineEdit.decimals)
    /\ text_value(lineEdit) \in round(op.n, lineEdit.decimals)

\* setValue(n) commits: the validator accepts the text fixup returns
commits(L, n) == \E t \in fixup(L, str(n)) : validate(L, t) = "Acceptable"

\* C14: in any reachable state of a numeric editor, also a freshly
\* constructed one and one the user has typed into without finishing, a
\* setValue(v) that commits emits valueChanged exactly once if v differs from
\* the value the editor reported by parsing its text immediately before the
\* call, and emits nothing if v equals that value.
C14_SetValueEmission ==
    [][(op'.kind = "setValue" /\ commits(lineEdit, op'.n))
          => Len(op'.emits) = IF op'.n # text_value(lineEdit) THEN 1 ELSE 0
      ]_vars

\* C15: in the integer editor, for a valid text and a caret on a digit or at
\* the end of the text: when a step up that succeeds is immediately followed
\* by a step down that succeeds (or down, then up), the value is the original
\* value and the selection is on the digit with the place value of the digit
\* stepped first.
C15_StepThereAndBack ==
    [][(/\ ~lineEdit.float
        /\ op.kind = "step" /\ op.ok
        /\ op'.kind = "step" /\ op'.ok
        /\ op'.add # op.add)
          => /\ text_value(lineEdit') = op.before
             /\ lineEdit'.selend = lineEdit'.selstart + 1
             /\ isdigit(lineEdit'.text[lineEdit'.selend])
             /\ Len(lineEdit'.text) - lineEdit'.selend = op.exponent
      ]_vars

\* back at the original value after two opposite steps of the tens digit,
\* with the padding the carry left behind
C15_Witness ==
    /\ ~lineEdit.float
    /\ op.kind = "step" /\ op.again
    /\ op.exponent = 1
    /\ lineEdit.text # str(text_value(lineEdit))

\* C16: a step, up or down and at any caret position, whose resulting value
\* would be greater than maximum or less than minimum returns failure and
\* leaves the text, the cached value, the caret and selection and the number
\* of emitted valueChanged events as they were.
C16_StepOutOfRange ==
    [][(/\ op'.kind = "step"
        /\ ~in_range(stepped(lineEdit, op'.add), lineEdit.bottom, lineEdit.top))
          => /\ ~op'.ok
             /\ lineEdit' = lineEdit
             /\ op'.emits = <<>>
      ]_vars

\* a step up on a digit of an editor at its maximum has failed
C16_Witness ==
    /\ op.kind = "step" /\ op.add /\ ~op.ok
    /\ ~on_special(lineEdit)
    /\ in_range(text_value(lineEdit), lineEdit.top, lineEdit.top)
    /\ lineEdit.text # str(text_value(lineEdit))

\* the character right of the position step works on
char_at_caret(L) == step_text(L)[step_position(L) + 1]

\* C17: a step with the caret, or the start of the selection, immediately
\* before a sign returns failure and changes nothing, in either editor; in
\* the float editor a step with the caret immediately before the decimal
\* point is not rejected: it succeeds and changes the first decimal place.
C17_StepOnSpecial ==
    [][(op'.kind = "step" /\ on_special(lineEdit))
          => IF char_at_caret(lineEdit) \in {"+", "-"}
             THEN /\ ~op'.ok
                  /\ lineEdit' = lineEdit
                  /\ op'.emits = <<>>
             ELSE in_range(text_value(lineEdit) + (IF op'.add THEN 1 ELSE -1) * (Unit \div 10),
                           lineEdit.bottom, lineEdit.top)
                    => /\ op'.ok
                       /\ text_value(lineEdit') =
                              text_value(lineEdit) + (IF op'.add THEN 1 ELSE -1) * (Unit \div 10)
      ]_vars

\* the exponent of the place value of the digit right of the caret at
\* position in text: 10^(len(text) - position - 1), the ones digit with the
\* caret at the end, in the integer editor; 10^(d - position - 1) left of a
\* decimal point at index d and 10^(d - position) right of it in the float
\* editor, the first decimal place with no decimal point and the caret at
\* the end
place_exponent(float, text, position) ==
    IF ~float
    THEN (IF position = Len(text) THEN 0 ELSE Len(text) - position - 1)
    ELSE IF find_point(text) = -1
    THEN (IF position = Len(text) THEN -1 ELSE Len(text) - position - 1)
    ELSE IF position < find_point(text) THEN find_point(text) - position - 1
    ELSE find_point(text) - position

\* the value after a successful step is the value before plus or minus
\* 10^exponent
changed_by(exponent) ==
    text_value(lineEdit') =
        text_value(lineEdit) + (IF op'.add THEN 1 ELSE -1) * place_value(exponent)

\* C18 as stated: a successful step changes the value by exactly plus or
\* minus the place value of the digit immediately right of the caret, for
\* every text, the empty one included.
C18_StepPlaceValue_Original ==
    [][(op'.kind = "step" /\ op'.ok)
          => changed_by(place_exponent(lineEdit.float, lineEdit.text, step_position(lineEdit)))
      ]_vars

\* C18: a successful step changes the value by exactly plus or minus the
\* place value of the digit immediately right of the caret, where an empty
\* text counts as the text '0' with the caret before it.
C18_StepPlaceValue ==
    [][(op'.kind = "step" /\ op'.ok)
          => changed_by(place_exponent(lineEdit.float, step_text(lineEdit), step_position(lineEdit)))
      ]_vars

\* a step in a float editor with the caret at the end of a text with a
\* decimal point has added a decimal place
C18_Witness ==
    /\ op.kind = "step" /\ op.ok
    /\ lineEdit.float
    /\ op.exponent = -MaxDecimals
    /\ count_decimals(lineEdit.text) = MaxDecimals
    /\ text_value(lineEdit) # op.before

\* u is the unpadded text of the number n: no plus sign, no leading zeros, no
\* decimal point for a whole number and no zero at the end after one
unpadded(u, n, float) ==
    /\ IF float THEN float_ok(u) /\ float_parse(u) = n ELSE int_ok(u) /\ int_parse(u) = n
    /\ u[1] # "+"
    /\ n = 0 => u = <<"0">>
    /\ n % Unit = 0 => find_point(u) = -1
    /\ find_point(u) # -1 => u[Len(u)] # "0" /\ find_point(unsigned(u)) >= 1
    /\ Len(unsigned(u)) > 1 /\ unsigned(u)[1] = "0" => find_point(unsigned(u)) = 1

\* the number the text t parses to, 0 when it does not parse
parsed_or_zero(t, float) ==
    IF float THEN (IF float_ok(t) THEN float_parse(t) ELSE 0)
    ELSE (IF int_ok(t) THEN int_parse(t) ELSE 0)

C19_Witness_Unparsable ==
    /\ op.kind = "strip_padding"
    /\ ~int_ok(op.text) /\ ~float_ok(op.text)
    /\ lineEdit.text = <<"0">>

\* min(max(n, bottom), top) for whole bounds
clamped(n, bottom, top) ==
    IF n \div Unit < bottom THEN bottom * Unit
    ELSE IF -((-n) \div Unit) > top THEN top * Unit
    ELSE n

\* C20: in the integer and in the float editor, setValue(v) with v outside
\* [minimum, maximum] commits the value clamped to the nearest bound, so that
\* afterwards the editor's value lies in [minimum, maximum].
C20_SetValueClamps ==
    [][(op'.kind = "setValue" /\ ~in_range(op'.n, lineEdit.bottom, lineEdit.top))
          => /\ text_value(lineEdit') = clamped(op'.n, lineEdit.bottom, lineEdit.top)
             /\ lineEdit'._value = clamped(op'.n, lineEdit.bottom, lineEdit.top)
      ]_vars

\* the whole number at or below n
floor_of(n) == CHOOSE m \in {k * Unit : k \in -MaxNum..MaxNum} : m <= n /\ n < m + Unit

\* C21: constructing Int2(a, b) from numbers stores floor(a) and floor(b),
\* rounding toward negative infinity: Int2(1.9, -1.9) has components (1, -2)
C21_Int2Floors ==
    vec.kind = "new" /\ vec.res.cls = "Int2" =>
        /\ vec.err = "none"
        /\ vec.v = vec.res
        /\ vec.v.x = Num("int", floor_of(vec.a.n))
        /\ vec.v.y = Num("int", floor_of(vec.b.n))

C21_Witness ==
    /\ vec.kind = "new"
    /\ vec.a = Num("float", 19 * (Unit \div 10))
    /\ vec.b = Num("float", -19 * (Unit \div 10))
    /\ vec.v = Vector("Int2", Num("int", Unit), Num("int", -2 * Unit))

\* C22: in every reachable state of an Int2 instance, after construction and
\* after any assignment of a number to x or y, both components are integers,
\* and an assigned non-integer number is stored as its floor
C22_Int2Integral ==
    vec.v.cls = "Int2" =>
        /\ vec.v.x.ty = "int"
        /\ vec.v.y.ty = "int"
        /\ vec.kind = "assign" => vec.v[vec.attr] = Num("int", floor_of(vec.a.n))

\* the operands of a division: two vectors of one class
SameClassDivision ==
    /\ vec.kind \in {"truediv", "floordiv"}
    /\ IsVector(vec.other)
    /\ vec.other.cls = vec.v.cls

\* the component a division of class cls holds for a over b
quotient_held(cls, kind, a, b) ==
    IF kind = "floordiv" \/ cls = "Int2"
    THEN Num(IF cls = "Int2" \/ a.ty = "int" THEN "int" ELSE "float", floor_of(quotient(a.n, b.n)))
    ELSE Num("float", quotient(a.n, b.n))

\* C23: for two vectors of the same type, true division and floor division
\* return a new vector of that type holding the componentwise quotients; when
\* a component of the divisor is zero, as an integer or as a float, the
\* operation raises an error and returns no vector
C23_Division ==
    SameClassDivision =>
        IF vec.other.x.n = 0 \/ vec.other.y.n = 0
        THEN vec.err # "none" /\ vec.res = NoVector
        ELSE /\ vec.err = "none"
             /\ vec.res = Vector(vec.v.cls,
                                 quotient_held(vec.v.cls, vec.kind, vec.v.x, vec.other.x),
                                 quotient_held(vec.v.cls, vec.kind, vec.v.y, vec.other.y))

\* a division by a number or by a vector with a zero in it
ZeroDivisor(o) ==
    /\ o.kind \in {"truediv", "floordiv"}
    /\ IF IsVector(o.other) THEN o.other.x.n = 0 \/ o.other.y.n = 0 ELSE o.other.n = 0

\* C24: add, sub, mul and both divisions of an Int2 or a Float2 accept a
\* vector of the same type or a number as right-hand operand; the result is
\* a new vector of the left operand's type and the left operand is not modified
C24_ScalarOrVector ==
    [][vec'.kind \in {"add", "sub", "mul", "truediv", "floordiv"} /\ ~ZeroDivisor(vec') =>
        /\ vec'.err = "none"
        /\ vec'.res.cls = vec.v.cls
        /\ vec'.v = vec.v]_vars

\* the positions of text after which the rule puts a space
gap_after(text) ==
    {i \in 1..Len(text) - 1 : (islower(text[i]) \/ isdigit(text[i])) /\ isupper(text[i + 1])}

RECURSIVE spaced(_, _)
\* text from position i on, with the spaces put in and the underscores replaced
spaced(text, i) ==
    IF i > Len(text) THEN <<>>
    ELSE <<IF text[i] = "_" THEN " " ELSE text[i]>>
         \o (IF i \in gap_after(text) THEN <<" ">> ELSE <<>>)
         \o spaced(text, i + 1)

\* every word of text capitalised: the first character of a word in upper
\* case, the others in lower case; the words are what the spaces separate
words_capitalised(text) ==
    [i \in 1..Len(text) |->
        IF i = 1 \/ text[i - 1] = " " THEN upper(text[i]) ELSE lower(text[i])]

\* every run of letters capitalised: a letter at the start of the text or
\* after a character that is not a letter in upper case, a letter after a
\* letter in lower case
runs_capitalised(text) ==
    [i \in 1..Len(text) |->
        IF i = 1 \/ ~isalpha(text[i - 1]) THEN upper(text[i]) ELSE lower(text[i])]

\* C27 as stated: the label of a widget constructed with a name and no label
\* is the name with a space between a lowercase letter or digit and a
\* following uppercase letter, underscores as spaces and every word
\* capitalised; a label passed explicitly is kept as given
C27_Label_Original ==
    labelled.built /\ labelled.name # <<>> =>
        IF labelled.given.absent
        THEN labelled.label = Text(words_capitalised(spaced(labelled.name, 1)))
        ELSE labelled.label = labelled.given

\* C27: the same with every run of letters capitalised, so that a letter
\* after a digit is in upper case too
C27_Label ==
    labelled.built /\ labelled.name # <<>> =>
        IF labelled.given.absent
        THEN labelled.label = Text(runs_capitalised(spaced(labelled.name, 1)))
        ELSE labelled.label = labelled.given

C27_Witness ==
    /\ labelled.built
    /\ labelled.name = <<"a", "A", "_", "b">>
    /\ labelled.given.absent
    /\ labelled.label = Text(<<"A", " ", "A", " ", "B">>)

\* C30: an external assignment w.value = V to an Int2Property emits
\* valueChanged only with V as the current value: no emission of the widget
\* carries a composite of one new and one old component
C30_NoMixedComposite ==
    op.kind = "ExtAssign" /\ op.err = "none" /\ widgets[op.w].kind = "Int2" =>
        \A i \in 1..Len(OwnEmits(op, op.w)) : OwnEmits(op, op.w)[i].v = op.v

\* C25: for an IntProperty, after any sequence of value assignments, committed
\* line edits and slider moves, with values inside or outside
\* [slider_min, slider_max], the slider position equals the value the line
\* editor shows.
C25_SliderEqualsLine ==
    prop.kind = "Int" => prop.slider.value * Unit = text_value(prop.lines[1])

\* C29: for a FloatProperty with slider_min < slider_max, the value a slider
\* position p was mapped to by slider_value_changed is mapped back to p by
\* set_slider_value; a value below slider_min is mapped to slider.minimum and
\* a value above slider_max to slider.maximum.
C29_SliderRoundTrip ==
    [][(prop.kind = "Float" /\ prop.slider_min < prop.slider_max /\ op'.kind = "assign") =>
           /\ (op.kind = "slider" /\ op'.again) => prop'.slider.value = prop.slider.value
           /\ op'.v.n < prop.slider_min * Unit => prop'.slider.value = prop.slider.minimum
           /\ op'.v.n > prop.slider_max * Unit => prop'.slider.value = prop.slider.maximum]_vars

\* the three channels of a colour as getRgbF lists them
channels(color) == <<color.r, color.g, color.b>>

\* C26: a cancelled picker (an empty path from PathProperty.browse, an invalid
\* colour from ColorProperty.select_color) leaves the value and the
\* sub-controls as they were and emits no valueChanged; a confirmed one makes
\* its result the value, and for a colour also updates the three component
\* editors and the swatch and emits valueChanged exactly once.
C26_Picker ==
    [][op'.kind = "pick" =>
           /\ (prop.kind = "Path" /\ op'.v = "") \/ (prop.kind = "Color" /\ ~op'.v.valid) =>
                  prop' = prop /\ op'.emits = <<>>
           /\ prop.kind = "Path" /\ op'.v # "" => Property_value(prop') = op'.v
           /\ prop.kind = "Color" /\ op'.v.valid =>
                  /\ Property_value(prop') = op'.v
                  /\ \A i \in 1..3 : text_value(prop'.lines[i]) = getRgbF(channels(op'.v)[i])
                  /\ prop'.button = op'.v
                  /\ op'.emits = <<op'.v>>]_vars

\* a colour other than the current one was picked and confirmed
C26_Witness ==
    /\ prop.kind = "Color" /\ op.kind = "pick" /\ op.before = 0
    /\ op.v.valid /\ prop.color = op.v /\ Len(op.emits) = 1
    /\ text_value(prop.lines[2]) = Unit \div 2

\* C28: while an Int, Float or Color property is assigned a value, or is
\* updated from its slider or one of its editors, the push into the other
\* sub-controls never runs slider_value_changed or line_value_changed of the
\* widget, and after the operation no sub-control has its signals blocked.
C28_NoReentry ==
    prop.kind \in {"Int", "Float", "Color"} /\ op.kind \in {"assign", "slider", "line", "step"} =>
        /\ \A k \in 1..Len(op.calls) : op.calls[k].pushing = 0
        /\ ~prop.slider.blocked
        /\ \A i \in 1..Len(prop.lines) : ~prop.lines[i].blocked

\* the slider was moved and the push changed what the editor shows
C28_Witness ==
    /\ prop.kind = "Float" /\ op.kind = "slider" /\ op.n = 25
    /\ op.calls = <<[h |-> "slider_value_changed", pushing |-> 0]>>
    /\ text_value(prop.lines[1]) = 25 * (Unit \div 10)

\* C31: cls.from_widget(source, **overrides) leaves the source as it was: the
\* configuration record (kwargs) of every existing widget has the same keys
\* and values after the call as before it, the name included, whether the
\* call is made directly or by PropertyGroup(link=G) for the widgets of G.
C31_SourceUnchanged ==
    [][op'.kind \in {"FromWidget", "NewGroup"}
          => \A w \in 1..Len(widgets) : widgets'[w].kwargs = widgets[w].kwargs]_vars

\* C32: after every completed operation (an assignment to any widget, a user
\* edit, a write to the values of a group or of the editor, an override
\* toggle), every mirror that is not overridden has the value its source
\* widget has.
C32_MirrorEqualsSource ==
    \A m \in Following(widgets) : value(widgets[m]) = value(widgets[widgets[m].link.w])

\* the entries of widget wid in a value tree of the editor
TreeEntries(payload, wid) ==
    {payload[i].groups[j].values[k].value :
        <<i, j, k>> \in {ijk \in (1..Len(egroups)) \X (1..MaxGroups + 1) \X (1..MaxWidgets + 1) :
                            /\ ijk[2] <= Len(egroups[ijk[1]].groups)
                            /\ ijk[3] <= Len(groups[egroups[ijk[1]].groups[ijk[2]].gid].widgets)
                            /\ groups[egroups[ijk[1]].groups[ijk[2]].gid].widgets[ijk[3]] = wid}}

\* C33: every value tree the editor emits with values_changed agrees with the
\* links: the entry of every mirror that is not overridden equals the entry
\* of its source, so no tree shows a source with its new value next to a
\* mirror with the old one.
C33_TreesFollowLinks ==
    op.kind \in ValueOps \cup WriteOps \cup {"ToggleOverride"} =>
        \A e \in 1..Len(op.edlog) :
            \A m \in Following(widgets) :
                \A a \in TreeEntries(op.edlog[e].payload, m) :
                    \A b \in TreeEntries(op.edlog[e].payload, widgets[m].link.w) : a = b

\* C34: the configuration record of a newly constructed widget is made of the
\* defaults of its own variant and the options given to the constructor: it
\* is what the constructor yields when no widget was constructed before, and
\* holds no option that another variant contributed.
C34_OwnDefaultsOnly ==
    [][(op'.kind = "NewWidget" /\ op'.err = "none")
          => widgets'[op'.w].kwargs
                 = init_kwargs(set_defaults(PropertyWidget_defaults, op'.wkind),
                               "name" :> StrOpt(op'.name))]_vars

\* C35: a write to PropertyGroup.values or PropertyEditor.values in which
\* some entry has a value of the wrong type raises the type error and changes
\* nothing: every widget of the group (or of the editor) has the value it
\* had before the write, also those that precede the offending entry.
C35_WriteAllOrNothing ==
    [][(op'.kind \in WriteOps /\ ~TypeCorrect(op'))
          => /\ op'.err = "TypeError"
             /\ \A w \in Scope(op') : value(widgets'[w]) = value(widgets[w])
      ]_vars

\* C36: for an IntProperty, after any sequence of assignments of integers
\* (also integers outside [line_min, line_max]), committed line edits and
\* slider moves, the value of the property equals the value its line editor
\* shows.
C36_ValueEqualsLine ==
    prop.kind = "Int" => Property_value(prop).n = text_value(prop.lines[1])

\* C37: in the earlier FloatParameterWidget, for slider_min < slider_max and
\* every position p of the slider, a slider move to p sets the value to
\* slider_min + (slider_max - slider_min) * (p - slider.minimum)
\*                                        / (slider.maximum - slider.minimum)
\* and, once the value is pushed back into the controls, the slider is at p.
C37_ParameterSlider ==
    (prop.kind = "FloatParameter" /\ prop.slider_min < prop.slider_max /\ op.kind = "slider") =>
        /\ prop._value.n * (prop.slider.maximum - prop.slider.minimum)
              = prop.slider_min * Unit * (prop.slider.maximum - prop.slider.minimum)
                  + (prop.slider_max - prop.slider_min) * Unit * (op.n - prop.slider.minimum)
        /\ prop.slider.value = op.n

====
